---------------------------- MODULE Spec2Model ----------------------------
(***************************************************************************)
(* The scheduled collection pipeline of meta_dashboard: the rate-limit     *)
(* retry wrapper of the Meta API client, the per-ad-set insights fetch,    *)
(* the pipeline run of the campaign tracker and the polling schedulers.    *)
(*                                                                         *)
(* The program is sequential Python.  Its state is a call stack of frames  *)
(* [fn, pc] plus the locals and object fields the frames use.  An          *)
(* exception unwinds the stack to the innermost try block whose except     *)
(* clause catches its class; the handler tables below are read off the     *)
(* try/except statements of the source.                                    *)
(***************************************************************************)
EXTENDS Integers, Sequences, FiniteSets, TLC

(***************************************************************************)
(* Program constants.                                                      *)
(***************************************************************************)
max_retries == 3
BASE_WAIT_TIME == 60
REQUEST_DELAY == 1
RATE_LIMIT_CODE == 17

(***************************************************************************)
(* Bounds of the model.                                                    *)
(***************************************************************************)
\* ids in the list given to get_adset_insights called on its own
MaxAdsets == 2
\* ad sets a campaign of the metrics source has
MaxListed == 1
\* dates a metrics response covers
MaxDays == 2
\* data lines of a table handed to upload_dataframe_to_sheet called on its own
MaxLines == 2
\* rows of a row set handed to the data processing called on its own
MaxRows == 3
\* largest spend of such a row
MaxSpend == 1
\* largest count (clicks, views, impressions, reach) of such a row
MaxCount == 3
\* ad-set summaries compare_adsets_performance ranks when called on its own
MaxSummaries == 5
\* largest efficiency score of such a summary
MaxScore == 2
\* dates the rows cover that analyze_daily_trends is called with on its own
MaxDates == 15
\* largest value calculate_trend_percentage is called with on its own
MaxValue == 8
\* seconds a slow remote call can take
LongCall == 3600

VARIABLES
    entry,        \* the entry point that is running
    stack,        \* call stack, innermost frame last
    exc,          \* the exception the innermost except clause is handling
    ret,          \* value returned by the callee that just returned
    api,          \* the _safe_api_call in flight or last finished
    adset_ids,    \* get_adset_insights: the id list given
    idx,          \* get_adset_insights: position of the for loop
    all_insights, \* get_adset_insights: rows collected so far
    fetched,      \* history: per position handled, what its request gave
    fetch_slept,  \* history: seconds slept since get_adset_insights began
    log,          \* messages logged since the entry point or pipeline run began
    escaped,      \* the exception that left the entry point, if any
    result,       \* what the entry point returned
    target_campaign_id, \* CampaignTracker.target_campaign_id, 0 for None
    adset_data,   \* pipeline run: the summary table by ad set
    daily_data,   \* pipeline run: the summary table by date
    sheets_data,  \* _update_sheets: the tables prepared for upload
    results,      \* upload_campaign_data: sheet key -> success
    upload,       \* upload_dataframe_to_sheet: the arguments of the call in flight
    sheets,       \* the spreadsheet: sheet name -> lines
    run,          \* history of the pipeline run in progress or last ended
    jobs,         \* the jobs registered with the schedule library
    runnable,     \* run_pending: the due jobs still to run
    started,      \* history: triggered actions started and not returned
    aborted,      \* history: triggered actions cut short when the scheduler stopped
    ticks,        \* history: number of tick sleeps of the check loop
    runs,         \* history: number of triggered actions started
    interrupts,   \* history: number of manual interrupts delivered
    failed_runs,  \* history: triggered actions that ended after logging an error
    initial_run,  \* history: the pipeline run made before the check loop
    exit_status,  \* <<status>> once the process of a 'once' command has exited
    analysis,     \* DataProcessor analysis call: its arguments and locals
    monitor       \* PerformanceScheduler.config and the add or remove call made

ctl == <<stack, exc, ret, escaped>>
fetchLocals == <<adset_ids, idx, all_insights, fetched, fetch_slept>>
tables == <<adset_data, daily_data>>
sinkVars == <<sheets_data, results, upload, sheets>>
schedHist == <<runnable, started, aborted, ticks, runs, interrupts,
               failed_runs, initial_run>>
schedVars == <<jobs, schedHist>>
pipeVars == <<result, target_campaign_id, tables, sinkVars, run>>

vars == <<entry, ctl, api, fetchLocals, log, pipeVars, schedVars, exit_status,
         analysis, monitor>>

NoRet == [kind |-> "none"]
NoExc == [cls |-> "none", code |-> 0]

(***************************************************************************)
(* Exceptions.  code is _api_error_code of a FacebookRequestError.         *)
(***************************************************************************)
RateLimitError == [cls |-> "FacebookRequestError", code |-> RATE_LIMIT_CODE]
OtherApiError == [cls |-> "FacebookRequestError", code |-> 100]
NetworkError == [cls |-> "Exception", code |-> 0]
KeyboardInterrupt == [cls |-> "KeyboardInterrupt", code |-> 0]
\* gspread.WorksheetNotFound, the KeyError of a missing column, and any
\* other failure of a spreadsheet call or of local code
WorksheetNotFound == [cls |-> "WorksheetNotFound", code |-> 0]
KeyError == [cls |-> "KeyError", code |-> 0]
SheetError == [cls |-> "Exception", code |-> 1]
NotFound == [cls |-> "Exception", code |-> 2]

RemoteErrors == {RateLimitError, OtherApiError, NetworkError}

\* an except Exception clause that also catches KeyboardInterrupt
IsInstanceBase(e, cls) ==
    CASE cls \in {"bare", "Exception"} -> TRUE
      [] OTHER -> e.cls = cls

\* an except clause that catches the named class only, not its subclasses
IsInstanceExact(e, cls) == cls = "bare" \/ e.cls = cls

\* isinstance(e, cls) for the classes an except clause of the source names;
\* "bare" is an except clause without a class.  KeyboardInterrupt is no
\* subclass of Exception.
IsInstance(e, cls) ==
    CASE cls = "bare" -> TRUE
      [] cls = "Exception" -> e.cls # "KeyboardInterrupt"
      [] OTHER -> e.cls = cls

Ok == [cls |-> "ok", code |-> 0]
\* the Exception raised after the for loop of _safe_api_call
RetryExhausted == [cls |-> "Exception", code |-> 62]

(***************************************************************************)
(* What the remote services can answer.                                    *)
(***************************************************************************)
AdsetIds == 1..MaxAdsets

\* id lists a caller can pass to get_adset_insights
IdLists == UNION {[1..n -> AdsetIds] : n \in 0..MaxAdsets}

\* the daily rows of one ad set: one row per date 1..n
Rows(adset_id, n) == [d \in 1..n |-> [adset_id |-> adset_id, date |-> d]]

\* ad-set listings of a campaign: no id twice
AdsetLists ==
    {l \in UNION {[1..n -> 1..MaxListed] : n \in 0..MaxListed} :
        \A i, j \in DOMAIN l : i # j => l[i] # l[j]}

TargetName == "[target]"
Campaign(id, name) == [campaign_id |-> id, campaign_name |-> name]
CampaignLists ==
    {<< >>,
     <<Campaign(1, "other")>>,
     <<Campaign(1, "other"), Campaign(2, TargetName)>>,
     <<Campaign(2, TargetName), Campaign(3, TargetName)>>}

List(l) == [kind |-> "list", val |-> l]
Returned == [kind |-> "returned"]

Responses(func) ==
    CASE func = "get_insights" -> {[kind |-> "rows", n |-> n] : n \in 0..MaxDays}
      [] func = "get_ad_sets" -> {List(l) : l \in AdsetLists}
      [] func = "get_campaigns" -> {List(l) : l \in CampaignLists}

\* how long a remote call can take
Latencies == {0, LongCall}

(***************************************************************************)
(* Call stack and exception unwinding.                                     *)
(***************************************************************************)
Frame(fn, pc) == [fn |-> fn, pc |-> pc]
Top == stack[Len(stack)]
At(fn, pc) == stack # <<>> /\ Top = Frame(fn, pc)
Pop(st) == SubSeq(st, 1, Len(st) - 1)
Goto(st, pc) == [st EXCEPT ![Len(st)].pc = pc]
Push(st, pc, callee) == Append(Goto(st, pc), callee)
Handler(cls, to) == [catch |-> cls, to |-> to]

\* try blocks of _safe_api_call: the api_func call is inside the try with
\* two except clauses; the except bodies and the final raise are outside.
SafeApiCallHandlers(pc) ==
    IF pc = "call"
    THEN <<Handler("FacebookRequestError", "handle"),
           Handler("Exception", "unexpected")>>
    ELSE << >>

\* get_adset_insights without the try around one ad set's request
InsightsHandlersNoSkip(pc) ==
    IF pc \in {"delay", "request", "skip", "finish"}
    THEN <<Handler("Exception", "outer")>>
    ELSE << >>

\* try blocks of get_adset_insights
InsightsHandlers(pc) ==
    CASE pc \in {"delay", "request"} ->
            <<Handler("Exception", "skip"), Handler("Exception", "outer")>>
      [] pc \in {"skip", "finish"} -> <<Handler("Exception", "outer")>>
      [] OTHER -> << >>

\* listing functions without a try block
ListingHandlersNone(pc) == << >>
\* get_campaigns and get_adsets_by_campaign: one try around the whole body
ListingHandlers(pc) ==
    IF pc = "request" THEN <<Handler("Exception", "failed")>> ELSE << >>

\* CampaignTracker.initialize, PerformanceScheduler.initialize_clients and
\* _find_target_campaign: except Exception logs and raises again
InitializeHandlers(pc) ==
    IF pc \in {"meta_client", "sheets_manager", "find", "campaigns"}
    THEN <<Handler("Exception", "failed")>>
    ELSE << >>

\* a pipeline run without its try block
NoHandlers(pc) == << >>

\* CampaignTracker.collect_and_update_data: the body after the first log line
\* is one try block
CollectHandlers(pc) ==
    IF pc \in {"adsets", "insights", "update_sheets"}
    THEN <<Handler("Exception", "failed")>>
    ELSE << >>

\* PerformanceScheduler.collect_campaign_performance_data
PerfCollectHandlers(pc) ==
    IF pc \in {"campaigns", "adsets", "insights"}
    THEN <<Handler("Exception", "failed")>>
    ELSE << >>

\* the other actions PerformanceScheduler registers, each one try block
JobBodyHandlers(pc) ==
    IF pc = "body" THEN <<Handler("Exception", "failed")>> ELSE << >>

\* CampaignTracker._update_sheets
UpdateSheetsHandlers(pc) ==
    IF pc \in {"upload", "formatting"}
    THEN <<Handler("Exception", "failed")>>
    ELSE << >>

\* SheetsManager.upload_campaign_data
UploadCampaignDataHandlers(pc) ==
    IF pc \in {"adset_performance", "daily_trend"}
    THEN <<Handler("Exception", "failed")>>
    ELSE << >>

\* SheetsManager.upload_dataframe_to_sheet
UploadDataframeHandlers(pc) ==
    IF pc \in {"worksheet", "clear", "update", "format_header"}
    THEN <<Handler("Exception", "failed")>>
    ELSE << >>

\* SheetsManager.format_header_row: the column resizing is in an inner try
\* whose except clause names no class
FormatHeaderHandlers(pc) ==
    CASE pc = "format" -> <<Handler("Exception", "failed")>>
      [] pc = "resize" ->
            <<Handler("bare", "fallback"), Handler("Exception", "failed")>>
      [] pc = "fallback" -> <<Handler("Exception", "failed")>>
      [] OTHER -> << >>

\* SheetsManager.add_campaign_data_formatting
FormattingHandlers(pc) ==
    CASE pc = "adset_sheet" ->
            <<Handler("WorksheetNotFound", "adset_missing"),
              Handler("Exception", "failed")>>
      [] pc = "daily_sheet" ->
            <<Handler("WorksheetNotFound", "daily_missing"),
              Handler("Exception", "failed")>>
      [] pc \in {"adset_missing", "daily_missing", "done"} ->
            <<Handler("Exception", "failed")>>
      [] OTHER -> << >>

\* CampaignTracker.run_once
RunOnceHandlers(pc) ==
    IF pc \in {"init", "collect"}
    THEN <<Handler("Exception", "failed")>>
    ELSE << >>

\* a run_scheduler with the except KeyboardInterrupt clause only
RunSchedulerHandlersInterruptOnly(pc) ==
    IF pc \in {"init", "first", "setup", "run_pending", "job", "sleep"}
    THEN <<Handler("KeyboardInterrupt", "interrupted")>>
    ELSE << >>

\* run_scheduler of CampaignTracker and of PerformanceScheduler
RunSchedulerHandlers(pc) ==
    IF pc \in {"init", "first", "setup", "run_pending", "job", "sleep"}
    THEN <<Handler("KeyboardInterrupt", "interrupted"),
           Handler("Exception", "failed")>>
    ELSE << >>

\* DataProcessor.compare_adsets_performance and analyze_daily_trends: the
\* whole body after the test of df.empty is one try block
AnalysisHandlers(pc) ==
    IF pc # "failed" THEN <<Handler("Exception", "failed")>> ELSE << >>

JobBodies ==
    {"collect_daily_performance_data", "generate_weekly_summary",
     "performance_health_check"}

Handlers(fn, pc) ==
    CASE fn = "safe_api_call" -> SafeApiCallHandlers(pc)
      [] fn = "get_adset_insights" -> InsightsHandlers(pc)
      [] fn \in {"get_campaigns", "get_adsets_by_campaign"} -> ListingHandlers(pc)
      [] fn \in {"initialize", "initialize_clients", "find_target_campaign"} ->
            InitializeHandlers(pc)
      [] fn = "collect_and_update_data" -> CollectHandlers(pc)
      [] fn = "collect_campaign_performance_data" -> PerfCollectHandlers(pc)
      [] fn \in JobBodies -> JobBodyHandlers(pc)
      [] fn = "update_sheets" -> UpdateSheetsHandlers(pc)
      [] fn = "upload_campaign_data" -> UploadCampaignDataHandlers(pc)
      [] fn = "upload_dataframe_to_sheet" -> UploadDataframeHandlers(pc)
      [] fn = "format_header_row" -> FormatHeaderHandlers(pc)
      [] fn = "add_campaign_data_formatting" -> FormattingHandlers(pc)
      [] fn \in {"compare_adsets_performance", "analyze_daily_trends"} ->
            AnalysisHandlers(pc)
      [] fn = "run_once" -> RunOnceHandlers(pc)
      [] fn = "run_scheduler" -> RunSchedulerHandlers(pc)
      [] OTHER -> << >>

\* index of the first except clause of hs that catches e, 0 if none
RECURSIVE FirstCatch(_, _, _)
FirstCatch(hs, e, i) ==
    IF i > Len(hs) THEN 0
    ELSE IF IsInstance(e, hs[i].catch) THEN i
    ELSE FirstCatch(hs, e, i + 1)

\* the stack after e is raised at the innermost frame: frames are popped
\* until one has an except clause for e, which becomes its position
RECURSIVE Unwind(_, _)
Unwind(st, e) ==
    IF st = << >> THEN << >>
    ELSE LET f  == st[Len(st)]
             hs == Handlers(f.fn, f.pc)
             i  == FirstCatch(hs, e, 1)
         IN  IF i > 0 THEN Goto(st, hs[i].to) ELSE Unwind(Pop(st), e)

Raise(e) ==
    /\ stack' = Unwind(stack, e)
    /\ exc' = e
    /\ escaped' = IF Unwind(stack, e) = << >> THEN e ELSE escaped


(***************************************************************************)
(* Time.  A registered job is kept with the seconds left until its         *)
(* next_run (negative once it is due).  The schedule library reads only    *)
(* whether a job is due, the order of the due jobs and, for a job at a     *)
(* fixed time of day, the time of day: a job overdue by more than its      *)
(* period is kept at the period (an interval job) or at the same time of   *)
(* day (a fixed-time job).  The next_run of an interval job that is being  *)
(* run is not read again: Job.run replaces it by now + period when the job *)
(* function has returned.                                                  *)
(***************************************************************************)
Later(j, d) ==
    LET r == j.remaining - d
    IN  IF r >= 0 - j.period THEN r
        ELSE IF j.unit = "at" THEN r + j.period
        ELSE 0 - j.period

Elapsed(js, d) ==
    [i \in DOMAIN js |->
        IF js[i].unit = "hours" /\ \E k \in DOMAIN started : started[k] = i
        THEN js[i]
        ELSE [js[i] EXCEPT !.remaining = Later(js[i], d)]]

(***************************************************************************)
(* MetaAPIClient._safe_api_call and _handle_rate_limit_error.              *)
(***************************************************************************)
NewCall(func) ==
    [func |-> func, retry_count |-> 0, outcomes |-> << >>, waits |-> << >>,
     status |-> "running", raised |-> NoExc]

NoCall == [func |-> "none", retry_count |-> 0, outcomes |-> << >>,
           waits |-> << >>, status |-> "none", raised |-> NoExc]

RECURSIVE Pow2(_)
Pow2(n) == IF n = 0 THEN 1 ELSE 2 * Pow2(n - 1)

\* a wait that does not grow with retry_count
WaitTimeFixed(retry_count) == BASE_WAIT_TIME

\* wait_time = (2 ** retry_count) * 60
WaitTime(retry_count) == Pow2(retry_count) * BASE_WAIT_TIME

\* _handle_rate_limit_error with retry_count <= max_retries
handle_rate_limit_error_off_by_one(error, retry_count, max) ==
    IF error.code = RATE_LIMIT_CODE
    THEN retry_count <= max
    ELSE FALSE

\* _handle_rate_limit_error without the test of the error code
handle_rate_limit_error_any_code(error, retry_count, max) ==
    retry_count < max

\* the value _handle_rate_limit_error returns: TRUE after it has slept
handle_rate_limit_error(error, retry_count, max) ==
    IF error.code = RATE_LIMIT_CODE
    THEN retry_count < max
    ELSE FALSE

\* the api_func call of the current attempt returns
ApiCallOk ==
    /\ At("safe_api_call", "call")
    /\ \E r \in Responses(api.func), d \in Latencies :
          /\ api' = [api EXCEPT !.outcomes = Append(@, Ok),
                                !.status = "returned"]
          /\ ret' = r
          /\ stack' = Pop(stack)
          /\ jobs' = Elapsed(jobs, d)
    /\ UNCHANGED <<entry, exit_status, analysis, monitor, exc, escaped, fetchLocals, log, pipeVars, schedHist>>

\* the api_func call of the current attempt raises
ApiCallFail ==
    /\ At("safe_api_call", "call")
    /\ \E e \in RemoteErrors, d \in Latencies :
          /\ api' = [api EXCEPT !.outcomes = Append(@, e)]
          /\ Raise(e)
          /\ jobs' = Elapsed(jobs, d)
    /\ UNCHANGED <<entry, exit_status, analysis, monitor, ret, fetchLocals, log, pipeVars, schedHist>>

\* except FacebookRequestError: sleep and retry, or raise e
HandleRateLimitError ==
    /\ At("safe_api_call", "handle")
    /\ IF handle_rate_limit_error(exc, api.retry_count, max_retries)
       THEN /\ stack' = Goto(stack, "sleep")
            /\ UNCHANGED <<api, exc, escaped>>
       ELSE /\ api' = [api EXCEPT !.status = "raised", !.raised = exc]
            /\ Raise(exc)
    /\ UNCHANGED <<entry, exit_status, analysis, monitor, ret, fetchLocals, log, pipeVars, schedVars>>

\* time.sleep(wait_time) ends, _handle_rate_limit_error returns True and the
\* for loop goes to its next retry_count, or ends and line 62 raises
BackoffSleep ==
    /\ At("safe_api_call", "sleep")
    /\ fetch_slept' = fetch_slept + WaitTime(api.retry_count)
    /\ jobs' = Elapsed(jobs, WaitTime(api.retry_count))
    /\ IF api.retry_count + 1 <= max_retries
       THEN /\ api' = [api EXCEPT !.waits = Append(@, WaitTime(api.retry_count)),
                                  !.retry_count = @ + 1]
            /\ stack' = Goto(stack, "call")
            /\ exc' = NoExc
            /\ escaped' = escaped
       ELSE /\ api' = [api EXCEPT !.waits = Append(@, WaitTime(api.retry_count)),
                                  !.status = "raised",
                                  !.raised = RetryExhausted]
            /\ Raise(RetryExhausted)
    /\ UNCHANGED <<entry, exit_status, analysis, monitor, ret, adset_ids, idx, all_insights, fetched, log,
                   pipeVars, schedHist>>

\* except Exception of _safe_api_call: logger.error; raise e
ApiCallUnexpected ==
    /\ At("safe_api_call", "unexpected")
    /\ log' = log \cup {"error: unexpected api error"}
    /\ api' = [api EXCEPT !.status = "raised", !.raised = exc]
    /\ Raise(exc)
    /\ UNCHANGED <<entry, exit_status, analysis, monitor, ret, fetchLocals, pipeVars, schedVars>>

(***************************************************************************)
(* MetaAPIClient.get_campaigns and get_adsets_by_campaign.                 *)
(***************************************************************************)
\* the frames of a call of get_campaigns or get_adsets_by_campaign, which
\* starts with the _safe_api_call of its request
ListingCall(fn) == <<Frame(fn, "request"), Frame("safe_api_call", "call")>>

\* the listing is converted and returned
GetCampaignsReturn ==
    /\ At("get_campaigns", "request")
    /\ ret.kind = "list"
    /\ stack' = Pop(stack)
    /\ log' = log \cup {"info: campaigns listed"}
    /\ UNCHANGED <<entry, exit_status, analysis, monitor, exc, ret, escaped, api, fetchLocals, pipeVars, schedVars>>

GetAdsetsReturn ==
    /\ At("get_adsets_by_campaign", "request")
    /\ ret.kind = "list"
    /\ stack' = Pop(stack)
    /\ log' = log \cup {"info: adsets listed"}
    /\ UNCHANGED <<entry, exit_status, analysis, monitor, exc, ret, escaped, api, fetchLocals, pipeVars, schedVars>>

\* except Exception: logger.error; return []
ListingFailed ==
    /\ stack # << >>
    /\ Top.fn \in {"get_campaigns", "get_adsets_by_campaign"}
    /\ Top.pc = "failed"
    /\ log' = log \cup {"error: listing failed"}
    /\ ret' = List(<< >>)
    /\ exc' = NoExc
    /\ stack' = Pop(stack)
    /\ UNCHANGED <<entry, exit_status, analysis, monitor, escaped, api, fetchLocals, pipeVars, schedVars>>

(***************************************************************************)
(* MetaAPIClient.get_adset_insights.                                       *)
(***************************************************************************)
\* row order of df.sort_values(['date', 'adset_name'])
RowLess(a, b) ==
    \/ a.date < b.date
    \/ a.date = b.date /\ a.adset_id < b.adset_id

RECURSIVE Insert(_, _)
Insert(sorted, r) ==
    IF sorted = << >> THEN <<r>>
    ELSE IF RowLess(r, Head(sorted)) THEN <<r>> \o sorted
    ELSE <<Head(sorted)>> \o Insert(Tail(sorted), r)

RECURSIVE SortRows(_)
SortRows(rows) ==
    IF rows = << >> THEN << >>
    ELSE Insert(SortRows(SubSeq(rows, 1, Len(rows) - 1)), rows[Len(rows)])

\* a loop that ends after the first id
LoopPcOnce(ids, i) == IF i <= Len(ids) /\ i <= 1 THEN "delay" ELSE "finish"
\* position of the for loop after the ad set at position i - 1 is done
LoopPc(ids, i) == IF i <= Len(ids) THEN "delay" ELSE "finish"

\* time.sleep(REQUEST_DELAY) ends and the request of the ad set starts
InsightsDelay ==
    /\ At("get_adset_insights", "delay")
    /\ fetch_slept' = fetch_slept + REQUEST_DELAY
    /\ jobs' = Elapsed(jobs, REQUEST_DELAY)
    /\ api' = NewCall("get_insights")
    /\ ret' = NoRet
    /\ stack' = Push(stack, "request", Frame("safe_api_call", "call"))
    /\ fetched' = Append(fetched, [id |-> adset_ids[idx], status |-> "requested", n |-> 0])
    /\ run' = [run EXCEPT !.requests = @ + 1]
    /\ UNCHANGED <<entry, exit_status, analysis, monitor, exc, escaped, adset_ids, idx, all_insights, log,
                   result, target_campaign_id, tables, sinkVars, schedHist>>

\* _safe_api_call returned: the rows are appended, next ad set
InsightsRows ==
    /\ At("get_adset_insights", "request")
    /\ ret.kind = "rows"
    /\ all_insights' = all_insights \o Rows(adset_ids[idx], ret.n)
    /\ fetched' = [fetched EXCEPT ![Len(fetched)].status = "ok",
                                  ![Len(fetched)].n = ret.n]
    /\ idx' = idx + 1
    /\ ret' = NoRet
    /\ stack' = Goto(stack, LoopPc(adset_ids, idx + 1))
    /\ UNCHANGED <<entry, exit_status, analysis, monitor, exc, escaped, api, adset_ids, fetch_slept, log,
                   pipeVars, schedVars>>

\* the loop is over: the DataFrame is built, sorted and returned
InsightsReturn ==
    /\ At("get_adset_insights", "finish")
    /\ ret' = [kind |-> "df", rows |-> SortRows(all_insights)]
    /\ stack' = Pop(stack)
    /\ log' = log \cup {"info: insights fetched"}
    /\ UNCHANGED <<entry, exit_status, analysis, monitor, exc, escaped, api, fetchLocals, pipeVars, schedVars>>

\* the except clauses of get_adset_insights
InsightsFailed ==
    /\ stack # << >>
    /\ Top.fn = "get_adset_insights"
    /\ CASE Top.pc = "skip" ->
              \* logger.warning; continue
              /\ log' = log \cup {"warning: adset insights failed"}
              /\ fetched' = [fetched EXCEPT ![Len(fetched)].status = "failed"]
              /\ idx' = idx + 1
              /\ stack' = Goto(stack, LoopPc(adset_ids, idx + 1))
              /\ ret' = NoRet
         [] Top.pc = "outer" ->
              \* logger.error; return pd.DataFrame()
              /\ log' = log \cup {"error: insights fetch failed"}
              /\ ret' = [kind |-> "df", rows |-> << >>]
              /\ stack' = Pop(stack)
              /\ UNCHANGED <<idx, fetched>>
         [] OTHER -> FALSE
    /\ exc' = NoExc
    /\ UNCHANGED <<entry, exit_status, analysis, monitor, escaped, api, adset_ids, all_insights, fetch_slept,
                   pipeVars, schedVars>>

(***************************************************************************)
(* A caller of get_adset_insights with an arbitrary id list.               *)
(***************************************************************************)
NoRun == [campaigns |-> "none", listing |-> "none", requests |-> 0, sink_calls |-> 0]
NoUpload == [key |-> "none", sheet |-> "none", table |-> << >>,
             include_header |-> TRUE, clear_existing |-> TRUE]
SheetNames == {"adset sheet", "daily sheet"}

\* the default config of load_config, no add or remove call made
NoMonitor ==
    [keys |-> {"campaigns"}, campaigns |-> << >>, loaded |-> << >>,
     call |-> [fn |-> "none", campaign_id |-> 0, campaign_name |-> "None"]]

\* no analysis function of DataProcessor has been called
NoAnalysis ==
    [fn |-> "none", given |-> << >>, top_performers |-> << >>, bottom_performers |-> << >>,
     recent_7days |-> << >>, previous_7days |-> << >>]

\* the state before an entry point runs, the arguments of an upload and the
\* rows in hand aside
InitBase ==
    /\ idx = 1
    /\ fetch_slept = 0
    /\ api = NoCall
    /\ exc = NoExc
    /\ ret = NoRet
    /\ log = {}
    /\ escaped = NoExc
    /\ result = "none"
    /\ target_campaign_id = 0
    /\ adset_data = << >>
    /\ daily_data = << >>
    /\ sheets_data = << >>
    /\ results = << >>
    /\ run = NoRun
    /\ jobs = << >>
    /\ runnable = << >>
    /\ started = << >>
    /\ aborted = << >>
    /\ ticks = 0
    /\ runs = 0
    /\ interrupts = 0
    /\ failed_runs = 0
    /\ initial_run = "none"
    /\ exit_status = << >>

InitRest ==
    /\ upload = NoUpload
    /\ analysis = NoAnalysis
    /\ monitor = NoMonitor
    /\ all_insights = << >>
    /\ fetched = << >>
    /\ InitBase

InitFetch ==
    /\ entry = "fetch"
    /\ adset_ids \in IdLists
    /\ stack = <<Frame("get_adset_insights", LoopPc(adset_ids, 1))>>
    /\ sheets = [n \in SheetNames |-> << >>]
    /\ InitRest

NextFetch ==
    \/ InsightsDelay
    \/ ApiCallOk
    \/ ApiCallFail
    \/ HandleRateLimitError
    \/ BackoffSleep
    \/ ApiCallUnexpected
    \/ InsightsRows
    \/ InsightsReturn
    \/ InsightsFailed

SpecFetch == InitFetch /\ [][NextFetch]_vars

(***************************************************************************)
(* CampaignTracker.initialize and _find_target_campaign,                   *)
(* PerformanceScheduler.initialize_clients.                                *)
(***************************************************************************)
\* a filter that returns the first listed campaign whatever its name
filter_campaign_data_any(campaigns) ==
    IF campaigns = << >> THEN 0 ELSE Head(campaigns).campaign_id

\* DataProcessor.filter_campaign_data: the id of the first campaign with the
\* target name, 0 (None) if there is none
RECURSIVE filter_campaign_data(_)
filter_campaign_data(campaigns) ==
    IF campaigns = << >> THEN 0
    ELSE IF Head(campaigns).campaign_name = TargetName
         THEN Head(campaigns).campaign_id
         ELSE filter_campaign_data(Tail(campaigns))

\* MetaAPIClient() and SheetsManager() are constructed; initialize then
\* calls _find_target_campaign, which starts with get_campaigns
ClientInit ==
    /\ stack # << >>
    /\ Top.fn \in {"initialize", "initialize_clients"}
    /\ Top.pc \in {"meta_client", "sheets_manager"}
    /\ \E ok \in BOOLEAN :
          IF ~ok THEN /\ Raise(SheetError)
                      /\ UNCHANGED <<api, ret, log>>
          ELSE IF Top.pc = "meta_client"
               THEN /\ stack' = Goto(stack, "sheets_manager")
                    /\ UNCHANGED <<api, ret, exc, escaped, log>>
          ELSE IF Top.fn = "initialize"
               THEN /\ stack' = Push(stack, "find", Frame("find_target_campaign", "campaigns"))
                                   \o ListingCall("get_campaigns")
                    /\ api' = NewCall("get_campaigns")
                    /\ ret' = NoRet
                    /\ UNCHANGED <<exc, escaped, log>>
               ELSE /\ stack' = Pop(stack)
                    /\ ret' = Returned
                    /\ log' = log \cup {"info: clients initialized"}
                    /\ UNCHANGED <<api, exc, escaped>>
    /\ UNCHANGED <<entry, exit_status, analysis, monitor, fetchLocals, pipeVars, schedVars>>

\* get_campaigns returned: the target id is kept, or the search fails
FindTargetCampaign ==
    /\ At("find_target_campaign", "campaigns")
    /\ ret.kind = "list"
    /\ target_campaign_id' = filter_campaign_data(ret.val)
    /\ IF filter_campaign_data(ret.val) # 0
       THEN /\ stack' = Pop(stack)
            /\ ret' = Returned
            /\ UNCHANGED <<exc, escaped>>
       ELSE /\ Raise(NotFound)
            /\ ret' = NoRet
    /\ UNCHANGED <<entry, exit_status, analysis, monitor, api, fetchLocals, log, result, tables, sinkVars, run,
                   schedVars>>

InitializeReturn ==
    /\ At("initialize", "find")
    /\ ret = Returned
    /\ stack' = Pop(stack)
    /\ log' = log \cup {"info: tracker initialized"}
    /\ UNCHANGED <<entry, exit_status, analysis, monitor, exc, ret, escaped, api, fetchLocals, pipeVars, schedVars>>

\* except Exception: logger.error; raise
InitializeFailed ==
    /\ stack # << >>
    /\ Top.fn \in {"initialize", "initialize_clients", "find_target_campaign"}
    /\ Top.pc = "failed"
    /\ log' = log \cup {"error: initialization failed"}
    /\ Raise(exc)
    /\ UNCHANGED <<entry, exit_status, analysis, monitor, ret, api, fetchLocals, pipeVars, schedVars>>

(***************************************************************************)
(* The pipeline run: CampaignTracker.collect_and_update_data and           *)
(* PerformanceScheduler.collect_campaign_performance_data.                 *)
(***************************************************************************)
CollectFns == {"collect_and_update_data", "collect_campaign_performance_data"}

\* the frames of a call of collect_and_update_data, which starts with
\* get_adsets_by_campaign; of collect_campaign_performance_data, with
\* get_campaigns (self.meta_client is set by then)
CollectCall(fn) ==
    IF fn = "collect_and_update_data"
    THEN <<Frame(fn, "adsets")>> \o ListingCall("get_adsets_by_campaign")
    ELSE <<Frame(fn, "campaigns")>> \o ListingCall("get_campaigns")

\* a pipeline run that always begins by listing the campaigns
FirstRequestCampaigns(fn) == "get_campaigns"

FirstRequest(fn) ==
    IF fn = "collect_and_update_data" THEN "get_ad_sets" ELSE "get_campaigns"

NewRun == [campaigns |-> "none", listing |-> "pending", requests |-> 0, sink_calls |-> 0]

\* "if not adsets" without the not
NoAdsetsNever(adsets) == FALSE

\* if not adsets
NoAdsets(adsets) == adsets = << >>

RECURSIVE SortedSeq(_)
SortedSeq(S) ==
    IF S = {} THEN << >>
    ELSE LET m == CHOOSE x \in S : \A y \in S : x <= y
         IN  <<m>> \o SortedSeq(S \ {m})

\* the group keys of groupby(['adset_id', 'adset_name']) and groupby('date')
AggregateAdsets(rows) == SortedSeq({rows[i].adset_id : i \in DOMAIN rows})
AggregateDaily(rows) == SortedSeq({rows[i].date : i \in DOMAIN rows})

\* an aggregation that returns its table also when it has failed
aggregate_whatever(ok, table) == table

\* _aggregate_adset_data and _aggregate_daily_data: the except clause of the
\* function logs the error and returns an empty DataFrame
aggregate_or_empty(ok, table) == IF ok THEN table ELSE << >>

\* collect_campaign_performance_data: get_campaigns returned
PerfCollectCampaigns ==
    /\ At("collect_campaign_performance_data", "campaigns")
    /\ ret.kind = "list"
    /\ run' = [run EXCEPT !.campaigns = IF api.status # "returned" THEN "failed"
                                        ELSE IF filter_campaign_data(ret.val) = 0
                                        THEN "missing" ELSE "found"]
    /\ IF filter_campaign_data(ret.val) = 0
       THEN /\ log' = log \cup {"error: campaign not found"}
            /\ stack' = Pop(stack)
            /\ ret' = Returned
            /\ api' = api
       ELSE /\ stack' = Goto(stack, "adsets") \o ListingCall("get_adsets_by_campaign")
            /\ api' = NewCall("get_ad_sets")
            /\ ret' = NoRet
            /\ log' = log
    /\ UNCHANGED <<entry, exit_status, analysis, monitor, exc, escaped, fetchLocals, result, target_campaign_id,
                   tables, sinkVars, schedVars>>

\* get_adsets_by_campaign returned: nothing to do, or the fetch starts
CollectAdsets ==
    /\ stack # << >>
    /\ Top.fn \in CollectFns
    /\ Top.pc = "adsets"
    /\ ret.kind = "list"
    /\ run' = [run EXCEPT !.listing = IF api.status # "returned" THEN "failed"
                                      ELSE IF ret.val = << >> THEN "empty"
                                      ELSE "some"]
    /\ IF NoAdsets(ret.val)
       THEN /\ log' = log \cup {"warning: no adsets"}
            /\ stack' = Pop(stack)
            /\ ret' = Returned
            /\ UNCHANGED fetchLocals
       ELSE /\ adset_ids' = ret.val
            /\ idx' = 1
            /\ all_insights' = << >>
            /\ fetched' = << >>
            /\ fetch_slept' = 0
            /\ stack' = Push(stack, "insights",
                             Frame("get_adset_insights", LoopPc(ret.val, 1)))
            /\ ret' = NoRet
            /\ log' = log
    /\ UNCHANGED <<entry, exit_status, analysis, monitor, exc, escaped, api, result, target_campaign_id, tables,
                   sinkVars, schedVars>>

\* DataProcessor.prepare_sheets_data_for_campaign: one entry per table that
\* is not empty, the by-ad-set table first
prepare_sheets_data_for_campaign(ad, dd) ==
    (IF ad # << >> THEN <<[key |-> "adset_performance", table |-> ad]>> ELSE << >>)
    \o (IF dd # << >> THEN <<[key |-> "daily_trend", table |-> dd]>> ELSE << >>)

\* the frames of a call of _update_sheets that has prepared its tables:
\* upload_campaign_data is about to look for its first key
UpdateSheetsCall ==
    <<Frame("update_sheets", "upload"),
      Frame("upload_campaign_data", "adset_performance")>>

\* get_adset_insights returned: no data, or the tables are aggregated, each
\* aggregation ending with its table or failing into its own except clause,
\* and _update_sheets starts; the extended scheduler aggregates a column
\* 'results' that the rows do not have
CollectInsights ==
    /\ stack # << >>
    /\ Top.fn \in CollectFns
    /\ Top.pc = "insights"
    /\ ret.kind = "df"
    /\ api' = NoCall
    /\ adset_ids' = << >>
    /\ idx' = 1
    /\ all_insights' = << >>
    /\ fetched' = << >>
    /\ fetch_slept' = 0
    /\ IF ret.rows = << >>
       THEN /\ log' = log \cup {"warning: no insights"}
            /\ stack' = Pop(stack)
            /\ ret' = Returned
            /\ UNCHANGED <<exc, escaped, tables, sheets_data>>
       ELSE IF Top.fn = "collect_campaign_performance_data"
       THEN /\ Raise(KeyError)
            /\ ret' = NoRet
            /\ UNCHANGED <<log, tables, sheets_data>>
       ELSE \E ad_ok, dd_ok \in BOOLEAN :
            LET ad == aggregate_or_empty(ad_ok, AggregateAdsets(ret.rows))
                dd == aggregate_or_empty(dd_ok, AggregateDaily(ret.rows))
                sd == prepare_sheets_data_for_campaign(ad, dd)
            IN  /\ adset_data' = ad
                /\ daily_data' = dd
                /\ sheets_data' = sd
                /\ ret' = NoRet
                /\ log' = log
                     \cup (IF ad_ok THEN {} ELSE {"error: adset aggregation failed"})
                     \cup (IF dd_ok THEN {} ELSE {"error: daily aggregation failed"})
                     \cup (IF sd = << >> THEN {"warning: nothing to update"} ELSE {})
                /\ stack' = IF sd = << >>
                            THEN Goto(stack, "update_sheets")
                            ELSE Goto(stack, "update_sheets") \o UpdateSheetsCall
                /\ UNCHANGED <<exc, escaped>>
    /\ UNCHANGED <<entry, exit_status, analysis, monitor, result, target_campaign_id, results, upload, sheets,
                   run, schedVars>>

\* _update_sheets returned (or there was nothing to update)
CollectReturn ==
    /\ At("collect_and_update_data", "update_sheets")
    /\ ret \in {NoRet, Returned}
    /\ log' = log \cup {"info: collection and update done"}
    /\ stack' = Pop(stack)
    /\ ret' = Returned
    /\ adset_data' = << >>
    /\ daily_data' = << >>
    /\ UNCHANGED <<entry, exit_status, analysis, monitor, exc, escaped, api, fetchLocals, result,
                   target_campaign_id, sinkVars, run, schedVars>>

\* except Exception of the pipeline run: logger.error, and the run returns
CollectFailed ==
    /\ stack # << >>
    /\ Top.fn \in CollectFns
    /\ Top.pc = "failed"
    /\ log' = log \cup {"error: collection failed"}
    /\ stack' = Pop(stack)
    /\ ret' = Returned
    /\ exc' = NoExc
    /\ adset_data' = << >>
    /\ daily_data' = << >>
    /\ UNCHANGED <<entry, exit_status, analysis, monitor, escaped, api, fetchLocals, result, target_campaign_id,
                   sinkVars, run, schedVars>>

(***************************************************************************)
(* SheetsManager: upload_campaign_data, upload_dataframe_to_sheet,         *)
(* format_header_row and add_campaign_data_formatting.  A call of the      *)
(* spreadsheet service is taken to be short next to a trigger period: it   *)
(* moves no job's next_run.                                                *)
(***************************************************************************)
Bool(v) == [kind |-> "bool", val |-> v]

\* the header line of a table, df.columns.tolist(); data lines are >= 1
Header == 0

SheetOf(key) == IF key = "adset_performance" THEN "adset sheet" ELSE "daily sheet"
\* an upload_campaign_data that stops after its first key
NextKey_stop(key) == "done"
NextKey(key) == IF key = "adset_performance" THEN "daily_trend" ELSE "done"
HasKey(sd, key) == \E i \in DOMAIN sd : sd[i].key = key
TableOf(sd, key) == sd[CHOOSE i \in DOMAIN sd : sd[i].key = key].table

\* values = [df.columns.tolist()] + df.values.tolist(), or the data lines only
Values(table, include_header) ==
    IF include_header THEN <<Header>> \o table ELSE table

\* an update that writes below the lines the sheet holds
Update_append(old, values) == old \o values

\* worksheet.update(values): the lines are written from the first line of the
\* sheet down; lines below them keep what they held
Update(old, values) ==
    [i \in 1..(IF Len(old) > Len(values) THEN Len(old) ELSE Len(values)) |->
        IF i <= Len(values) THEN values[i] ELSE old[i]]

\* a check of df.empty that finds no table empty
empty_never(df) == FALSE

\* df.empty
empty(df) == df = << >>

\* a worksheet.clear() that removes nothing
clear_nothing(old) == old

\* worksheet.clear(): the sheet holds no line afterwards
clear(old) == << >>

\* upload_campaign_data at one of its two keys: the table of the key, if
\* present, is handed to upload_dataframe_to_sheet and the answer is kept
UploadCampaignDataStep ==
    /\ stack # << >>
    /\ Top.fn = "upload_campaign_data"
    /\ Top.pc \in {"adset_performance", "daily_trend"}
    /\ IF ret.kind = "bool"
       THEN /\ results' = Append(results, [key |-> Top.pc, ok |-> ret.val])
            /\ stack' = Goto(stack, NextKey(Top.pc))
            /\ ret' = NoRet
            /\ upload' = NoUpload
       ELSE IF HasKey(sheets_data, Top.pc)
       THEN /\ upload' = [key |-> Top.pc, sheet |-> SheetOf(Top.pc),
                          table |-> TableOf(sheets_data, Top.pc),
                          include_header |-> TRUE, clear_existing |-> TRUE]
            /\ stack' = Append(stack, Frame("upload_dataframe_to_sheet", "worksheet"))
            /\ UNCHANGED <<results, ret>>
       ELSE /\ stack' = Goto(stack, NextKey(Top.pc))
            /\ UNCHANGED <<results, ret, upload>>
    /\ UNCHANGED <<entry, exit_status, analysis, monitor, exc, escaped, api, fetchLocals, log, result,
                   target_campaign_id, tables, sheets_data, sheets, run, schedVars>>

\* the end of upload_campaign_data: the count is logged, results returned
UploadCampaignDataReturn ==
    /\ stack # << >>
    /\ Top.fn = "upload_campaign_data"
    /\ CASE Top.pc = "done" -> log' = log \cup {"info: upload done"}
         [] Top.pc = "failed" -> log' = log \cup {"error: upload failed"}
         [] OTHER -> FALSE
    /\ stack' = Pop(stack)
    /\ ret' = Returned
    /\ exc' = NoExc
    /\ UNCHANGED <<entry, exit_status, analysis, monitor, escaped, api, fetchLocals, pipeVars, schedVars>>

\* upload_dataframe_to_sheet: an empty table is skipped; else
\* get_or_create_worksheet, worksheet.clear() and worksheet.update(...)
UploadDataframeStep ==
    /\ stack # << >>
    /\ Top.fn = "upload_dataframe_to_sheet"
    /\ Top.pc \in {"worksheet", "clear", "update"}
    /\ IF Top.pc = "worksheet" /\ empty(upload.table)
       THEN /\ log' = log \cup {"warning: empty table skipped"}
            /\ stack' = Pop(stack)
            /\ ret' = Bool(FALSE)
            /\ UNCHANGED <<exc, escaped, sheets, run>>
       ELSE /\ run' = [run EXCEPT !.sink_calls = @ + 1]
            /\ \E ok \in BOOLEAN :
                 IF ~ok
                 THEN /\ Raise(SheetError)
                      /\ UNCHANGED <<ret, sheets, log>>
                 ELSE /\ CASE Top.pc = "worksheet" ->
                                /\ stack' = Goto(stack, IF upload.clear_existing
                                                        THEN "clear" ELSE "update")
                                /\ UNCHANGED <<ret, sheets>>
                           [] Top.pc = "clear" ->
                                /\ sheets' = [sheets EXCEPT ![upload.sheet] = clear(@)]
                                /\ stack' = Goto(stack, "update")
                                /\ ret' = ret
                           [] Top.pc = "update" ->
                                /\ sheets' = [sheets EXCEPT ![upload.sheet] =
                                       Update(@, Values(upload.table, upload.include_header))]
                                /\ IF upload.include_header
                                   THEN /\ stack' = Push(stack, "format_header",
                                                Frame("format_header_row", "format"))
                                        /\ ret' = NoRet
                                   ELSE /\ stack' = Goto(stack, "format_header")
                                        /\ ret' = Returned
                      /\ UNCHANGED <<exc, escaped, log>>
    /\ UNCHANGED <<entry, exit_status, analysis, monitor, api, fetchLocals, result, target_campaign_id, tables,
                   sheets_data, results, upload, schedVars>>

\* the upload is logged and True returned
UploadDataframeReturn ==
    /\ At("upload_dataframe_to_sheet", "format_header")
    /\ ret = Returned
    /\ log' = log \cup {"info: table uploaded"}
    /\ stack' = Pop(stack)
    /\ ret' = Bool(TRUE)
    /\ UNCHANGED <<entry, exit_status, analysis, monitor, exc, escaped, api, fetchLocals, pipeVars, schedVars>>

\* except Exception: logger.error; return False
UploadDataframeFailed ==
    /\ At("upload_dataframe_to_sheet", "failed")
    /\ log' = log \cup {"error: table upload failed"}
    /\ stack' = Pop(stack)
    /\ ret' = Bool(FALSE)
    /\ exc' = NoExc
    /\ UNCHANGED <<entry, exit_status, analysis, monitor, escaped, api, fetchLocals, pipeVars, schedVars>>

\* format_header_row: worksheet.format, then the column resizing in its own
\* try; after any exception there, columns_auto_resize once more
FormatHeaderStep ==
    /\ stack # << >>
    /\ Top.fn = "format_header_row"
    /\ Top.pc \in {"format", "resize", "fallback"}
    /\ run' = [run EXCEPT !.sink_calls = @ + 1]
    /\ \E ok \in BOOLEAN :
         IF ~ok
         THEN /\ Raise(SheetError)
              /\ ret' = ret
         ELSE /\ IF Top.pc = "format"
                 THEN /\ stack' = Goto(stack, "resize")
                      /\ ret' = ret
                 ELSE /\ stack' = Pop(stack)
                      /\ ret' = Returned
              /\ exc' = NoExc
              /\ escaped' = escaped
    /\ UNCHANGED <<entry, exit_status, analysis, monitor, api, fetchLocals, log, result, target_campaign_id,
                   tables, sinkVars, schedVars>>

\* except Exception: logger.warning, and format_header_row returns
FormatHeaderFailed ==
    /\ At("format_header_row", "failed")
    /\ log' = log \cup {"warning: header formatting failed"}
    /\ stack' = Pop(stack)
    /\ ret' = Returned
    /\ exc' = NoExc
    /\ UNCHANGED <<entry, exit_status, analysis, monitor, escaped, api, fetchLocals, pipeVars, schedVars>>

\* _update_sheets: upload_campaign_data returned, add_campaign_data_formatting
\* is called
UpdateSheetsFormatting ==
    /\ At("update_sheets", "upload")
    /\ ret = Returned
    /\ stack' = Push(stack, "formatting",
                     Frame("add_campaign_data_formatting", "adset_sheet"))
    /\ ret' = NoRet
    /\ UNCHANGED <<entry, exit_status, analysis, monitor, exc, escaped, api, fetchLocals, log, pipeVars, schedVars>>

\* add_campaign_data_formatting: the formats of one sheet, in a try of its
\* own whose except gspread.WorksheetNotFound passes
FormattingStep ==
    /\ stack # << >>
    /\ Top.fn = "add_campaign_data_formatting"
    /\ \/ /\ Top.pc \in {"adset_sheet", "daily_sheet"}
          /\ run' = [run EXCEPT !.sink_calls = @ + 1]
          /\ \E e \in {Ok, WorksheetNotFound, SheetError} :
               IF e = Ok
               THEN /\ stack' = Goto(stack, IF Top.pc = "adset_sheet"
                                            THEN "daily_sheet" ELSE "done")
                    /\ UNCHANGED <<exc, escaped>>
               ELSE Raise(e)
       \/ /\ Top.pc \in {"adset_missing", "daily_missing"}
          /\ stack' = Goto(stack, IF Top.pc = "adset_missing"
                                  THEN "daily_sheet" ELSE "done")
          /\ exc' = NoExc
          /\ UNCHANGED <<escaped, run>>
    /\ UNCHANGED <<entry, exit_status, analysis, monitor, ret, api, fetchLocals, log, result, target_campaign_id,
                   tables, sinkVars, schedVars>>

\* the formatting is logged, or its failure is (logger.warning)
FormattingReturn ==
    /\ stack # << >>
    /\ Top.fn = "add_campaign_data_formatting"
    /\ CASE Top.pc = "done" -> log' = log \cup {"info: formatting applied"}
         [] Top.pc = "failed" -> log' = log \cup {"warning: formatting failed"}
         [] OTHER -> FALSE
    /\ stack' = Pop(stack)
    /\ ret' = Returned
    /\ exc' = NoExc
    /\ UNCHANGED <<entry, exit_status, analysis, monitor, escaped, api, fetchLocals, pipeVars, schedVars>>

\* sum(results.values())
successful_updates(rs) == Cardinality({i \in DOMAIN rs : rs[i].ok})

\* _update_sheets reports and returns
UpdateSheetsReturn ==
    /\ stack # << >>
    /\ Top.fn = "update_sheets"
    /\ CASE Top.pc = "formatting" /\ ret = Returned ->
              log' = log \cup {IF successful_updates(results) > 0
                               THEN "info: sheets updated"
                               ELSE "warning: sheets update failed"}
         [] Top.pc = "failed" -> log' = log \cup {"error: sheets update failed"}
         [] OTHER -> FALSE
    /\ stack' = Pop(stack)
    /\ ret' = Returned
    /\ exc' = NoExc
    /\ sheets_data' = << >>
    /\ results' = << >>
    /\ UNCHANGED <<entry, exit_status, analysis, monitor, escaped, api, fetchLocals, result, target_campaign_id,
                   tables, upload, sheets, run, schedVars>>

(***************************************************************************)
(* CampaignTracker.run_once.                                               *)
(***************************************************************************)
\* initialize returned: collect_and_update_data is called
RunOnceCollect ==
    /\ At("run_once", "init")
    /\ ret = Returned
    /\ stack' = Goto(stack, "collect") \o CollectCall("collect_and_update_data")
    /\ api' = NewCall("get_ad_sets")
    /\ ret' = NoRet
    /\ log' = {}
    /\ run' = NewRun
    /\ UNCHANGED <<entry, exit_status, analysis, monitor, exc, escaped, fetchLocals, result, target_campaign_id,
                   tables, sinkVars, schedVars>>

\* return True
RunOnceReturn ==
    /\ At("run_once", "collect")
    /\ ret = Returned
    /\ log' = log \cup {"info: single run done"}
    /\ result' = "True"
    /\ stack' = Pop(stack)
    /\ UNCHANGED <<entry, exit_status, analysis, monitor, exc, ret, escaped, api, fetchLocals, target_campaign_id,
                   tables, sinkVars, run, schedVars>>

\* except Exception: logger.error; return False
RunOnceFailed ==
    /\ At("run_once", "failed")
    /\ log' = log \cup {"error: single run failed"}
    /\ result' = "False"
    /\ stack' = Pop(stack)
    /\ exc' = NoExc
    /\ UNCHANGED <<entry, exit_status, analysis, monitor, ret, escaped, api, fetchLocals, target_campaign_id,
                   tables, sinkVars, run, schedVars>>

(***************************************************************************)
(* The schedule library and run_scheduler of CampaignTracker and of        *)
(* PerformanceScheduler.                                                   *)
(***************************************************************************)
HOUR == 3600
DAY == 86400
WEEK == 604800
\* time.sleep(60) of the check loop
TICK == 60

\* tick sleeps of the check loop that are explored
MaxTicks == 61
\* triggered actions after which the check loop is followed no further
MaxRuns == 2
\* manual interrupts that are delivered
MaxInterrupts == 1

Job(fn, unit, period, remaining) ==
    [fn |-> fn, unit |-> unit, period |-> period, remaining |-> remaining]

\* CampaignTracker.setup_schedule
TrackerJobs == <<Job("collect_and_update_data", "hours", HOUR, HOUR)>>

\* when the extended scheduler is started: the seconds left until the next
\* 09:00 and the next Monday 10:00 (a Monday 08:30, a Tuesday 09:30)
StartTimes == {[daily |-> 1800, weekly |-> 5400],
               [daily |-> DAY - 1800, weekly |-> 6 * DAY + 1800]}

\* PerformanceScheduler.setup_schedule
PerfJobs(t) ==
    <<Job("collect_campaign_performance_data", "hours", HOUR, HOUR),
      Job("collect_daily_performance_data", "at", DAY, t.daily),
      Job("generate_weekly_summary", "at", WEEK, t.weekly),
      Job("performance_health_check", "hours", 2 * HOUR, 2 * HOUR)>>

\* the messages of logger.error
Errors ==
    {"error: unexpected api error", "error: listing failed",
     "error: insights fetch failed", "error: initialization failed",
     "error: campaign not found", "error: collection failed",
     "error: upload failed", "error: table upload failed",
     "error: sheets update failed", "error: single run failed",
     "error: job failed", "error: scheduler failed",
     "error: adset aggregation failed", "error: daily aggregation failed"}

\* a scheduler that goes from initialize straight to setup_schedule
AfterInitNoFirstRun(e) == "setup"

\* what run_scheduler does after its initialization: CampaignTracker calls
\* collect_and_update_data, PerformanceScheduler goes on to setup_schedule
AfterInit(e) == IF e = "tracker" THEN "first" ELSE "setup"

RunSchedulerInitialized ==
    /\ At("run_scheduler", "init")
    /\ ret = Returned
    /\ IF AfterInit(entry) = "first"
       THEN /\ stack' = Goto(stack, "first") \o CollectCall("collect_and_update_data")
            /\ api' = NewCall("get_ad_sets")
            /\ ret' = NoRet
            /\ log' = {}
            /\ run' = NewRun
            /\ initial_run' = "running"
       ELSE /\ stack' = Goto(stack, "setup")
            /\ ret' = NoRet
            /\ UNCHANGED <<api, log, run, initial_run>>
    /\ UNCHANGED <<entry, exit_status, analysis, monitor, exc, escaped, fetchLocals, result, target_campaign_id,
                   tables, sinkVars, jobs, runnable, started, aborted, ticks, runs,
                   interrupts, failed_runs>>

\* the first collect_and_update_data returned
RunSchedulerFirstDone ==
    /\ At("run_scheduler", "first")
    /\ ret = Returned
    /\ stack' = Goto(stack, "setup")
    /\ ret' = NoRet
    /\ initial_run' = "done"
    /\ log' = {}
    /\ run' = NoRun
    /\ UNCHANGED <<entry, exit_status, analysis, monitor, exc, escaped, api, fetchLocals, result,
                   target_campaign_id, tables, sinkVars, jobs, runnable, started,
                   aborted, ticks, runs, interrupts, failed_runs>>

\* setup_schedule registers the jobs, each due one period from now or at its
\* next time of day; the check loop is entered
SetupSchedule ==
    /\ At("run_scheduler", "setup")
    /\ IF entry = "tracker"
       THEN jobs' = TrackerJobs
       ELSE \E t \in StartTimes : jobs' = PerfJobs(t)
    /\ stack' = Goto(stack, "run_pending")
    /\ log' = {"info: schedule set"}
    /\ api' = NoCall
    /\ UNCHANGED <<entry, exit_status, analysis, monitor, exc, ret, escaped, fetchLocals, pipeVars, schedHist>>

\* a job that is never due
should_run_never(j) == FALSE
\* job.should_run: datetime.now() >= self.next_run
should_run(j) == j.remaining <= 0

\* sorted(runnable_jobs): by next_run, then in the order of registration
RECURSIVE DueOrder(_, _)
DueOrder(js, S) ==
    IF S = {} THEN << >>
    ELSE LET m == CHOOSE i \in S : \A k \in S :
                      \/ js[i].remaining < js[k].remaining
                      \/ js[i].remaining = js[k].remaining /\ i <= k
         IN  <<m>> \o DueOrder(js, S \ {m})

\* schedule.run_pending() collects the due jobs
RunPending ==
    /\ At("run_scheduler", "run_pending")
    /\ LET due == DueOrder(jobs, {i \in DOMAIN jobs : should_run(jobs[i])})
       IN  /\ runnable' = due
           /\ stack' = Goto(stack, IF due = << >> THEN "sleep" ELSE "job")
    /\ UNCHANGED <<entry, exit_status, analysis, monitor, exc, ret, escaped, api, fetchLocals, log, pipeVars,
                   jobs, started, aborted, ticks, runs, interrupts, failed_runs,
                   initial_run>>

\* the frames of a call of a registered function
JobCall(fn) ==
    IF fn \in CollectFns THEN CollectCall(fn) ELSE <<Frame(fn, "body")>>

\* a loop that would start due jobs while another action is running
CanStartAnywhere == stack # << >> /\ Top.pc \in {"job", "body", "request", "call"}

\* the for loop of run_pending runs the next due job when the one before it
\* has returned
CanStart == At("run_scheduler", "job") /\ ret = NoRet

RunJob(counted) ==
    /\ CanStart
    /\ runnable # << >>
    /\ LET i == Head(runnable)
       IN  /\ started' = Append(started, i)
           /\ stack' = stack \o JobCall(jobs[i].fn)
           /\ api' = IF jobs[i].fn \in CollectFns
                     THEN NewCall(FirstRequest(jobs[i].fn)) ELSE api
    /\ runnable' = Tail(runnable)
    /\ runs' = IF counted THEN runs + 1 ELSE runs
    /\ ret' = NoRet
    /\ log' = {}
    /\ run' = NewRun
    /\ UNCHANGED <<entry, exit_status, analysis, monitor, exc, escaped, fetchLocals, result, target_campaign_id,
                   tables, sinkVars, jobs, aborted, ticks, interrupts,
                   failed_runs, initial_run>>
StartJob == RunJob(TRUE)

\* Job._schedule_next_run after the run: one period from now, or the next
\* time of day
NextRun(j) ==
    IF j.unit = "at" /\ j.remaining + j.period > 0
    THEN j.remaining + j.period
    ELSE j.period

\* the frames of the function that returned are gone, with their locals
LocalsGone ==
    /\ adset_ids' = << >>
    /\ idx' = 1
    /\ all_insights' = << >>
    /\ fetched' = << >>
    /\ fetch_slept' = 0
    /\ adset_data' = << >>
    /\ daily_data' = << >>
    /\ sheets_data' = << >>
    /\ results' = << >>
    /\ upload' = NoUpload

\* the job function returned: last_run is set and the job is scheduled
\* again; where the runs are counted the locals of the run are kept as it
\* left them
JobDone(counted) ==
    /\ At("run_scheduler", "job")
    /\ ret = Returned
    /\ started # << >>
    /\ LET i == started[Len(started)]
       IN  jobs' = [jobs EXCEPT ![i].remaining = NextRun(jobs[i])]
    /\ started' = Pop(started)
    /\ failed_runs' = IF counted /\ log \cap Errors # {} THEN failed_runs + 1
                       ELSE failed_runs
    /\ ret' = NoRet
    /\ log' = {}
    /\ run' = NoRun
    /\ api' = NoCall
    /\ stack' = Goto(stack, IF runnable = << >> THEN "sleep" ELSE "job")
    /\ IF counted
       THEN UNCHANGED <<fetchLocals, tables, sheets_data, results, upload>>
       ELSE LocalsGone
    /\ UNCHANGED <<entry, exit_status, analysis, monitor, exc, escaped, result, target_campaign_id,
                   sheets, runnable, aborted, ticks, runs, interrupts, initial_run>>
JobReturn == JobDone(TRUE)

\* time.sleep(60) ends
Tick(counted) ==
    /\ At("run_scheduler", "sleep")
    /\ counted => ticks < MaxTicks /\ runs < MaxRuns
    /\ ticks' = IF counted THEN ticks + 1 ELSE ticks
    /\ jobs' = Elapsed(jobs, TICK)
    /\ stack' = Goto(stack, "run_pending")
    /\ UNCHANGED <<entry, exit_status, analysis, monitor, exc, ret, escaped, api, fetchLocals, log, pipeVars,
                   runnable, started, aborted, runs, interrupts, failed_runs,
                   initial_run>>
TickSleep == Tick(TRUE)

\* collect_daily_performance_data, generate_weekly_summary and
\* _performance_health_check: the work on the monitored campaigns takes some
\* time and either ends or fails into the except Exception of the function,
\* which logs the error; the function returns in both cases
JobBody ==
    /\ stack # << >>
    /\ Top.fn \in JobBodies
    /\ CASE Top.pc = "body" ->
              \E d \in Latencies, ok \in BOOLEAN :
                  /\ jobs' = Elapsed(jobs, d)
                  /\ IF ok
                     THEN /\ log' = log \cup {"info: job done"}
                          /\ stack' = Pop(stack)
                          /\ ret' = Returned
                          /\ UNCHANGED <<exc, escaped>>
                     ELSE /\ Raise(SheetError)
                          /\ UNCHANGED <<log, ret>>
         [] Top.pc = "failed" ->
              /\ log' = log \cup {"error: job failed"}
              /\ stack' = Pop(stack)
              /\ ret' = Returned
              /\ exc' = NoExc
              /\ UNCHANGED <<escaped, jobs>>
         [] OTHER -> FALSE
    /\ UNCHANGED <<entry, exit_status, analysis, monitor, api, fetchLocals, pipeVars, schedHist>>

\* the statements of run_scheduler inside its try block
InTry == {"init", "first", "setup", "run_pending", "job", "sleep"}

\* Ctrl+C while run_scheduler is inside its try block: KeyboardInterrupt is
\* raised at the statement being executed, whatever call or sleep is in flight
Interrupt ==
    /\ stack # << >>
    /\ stack[1].fn = "run_scheduler"
    /\ stack[1].pc \in InTry
    /\ interrupts < MaxInterrupts
    /\ interrupts' = interrupts + 1
    /\ Raise(KeyboardInterrupt)
    /\ IF Len(Unwind(stack, KeyboardInterrupt)) <= 1
       THEN \* every frame above run_scheduler is gone, with its locals
            /\ aborted' = IF started = << >> THEN aborted
                          ELSE Append(aborted, [fn |-> jobs[Head(started)].fn,
                                                at |-> Top])
            /\ started' = << >>
            /\ runnable' = << >>
            /\ ret' = NoRet
            /\ api' = NoCall
            /\ adset_ids' = << >>
            /\ idx' = 1
            /\ all_insights' = << >>
            /\ fetched' = << >>
            /\ fetch_slept' = 0
            /\ adset_data' = << >>
            /\ daily_data' = << >>
            /\ sheets_data' = << >>
            /\ results' = << >>
            /\ upload' = NoUpload
            /\ run' = NoRun
            /\ log' = {}
       ELSE UNCHANGED <<aborted, started, runnable, ret, api, fetchLocals, tables,
                        sheets_data, results, upload, run, log>>
    /\ UNCHANGED <<entry, exit_status, analysis, monitor, result, target_campaign_id, sheets, jobs, ticks, runs,
                   failed_runs, initial_run>>

\* except KeyboardInterrupt: logger.info, and run_scheduler returns
RunSchedulerInterrupted ==
    /\ At("run_scheduler", "interrupted")
    /\ log' = log \cup {"info: stopped by user"}
    /\ result' = "returned"
    /\ stack' = Pop(stack)
    /\ exc' = NoExc
    /\ UNCHANGED <<entry, exit_status, analysis, monitor, ret, escaped, api, fetchLocals, target_campaign_id,
                   tables, sinkVars, run, schedVars>>

\* except Exception: logger.error, and run_scheduler returns
RunSchedulerFailed ==
    /\ At("run_scheduler", "failed")
    /\ log' = log \cup {"error: scheduler failed"}
    /\ result' = "returned"
    /\ stack' = Pop(stack)
    /\ exc' = NoExc
    /\ UNCHANGED <<entry, exit_status, analysis, monitor, ret, escaped, api, fetchLocals, target_campaign_id,
                   tables, sinkVars, run, schedVars>>

(***************************************************************************)
(* The entry points: CampaignTracker.run_scheduler ("tracker"),            *)
(* PerformanceScheduler.run_scheduler ("perf"), CampaignTracker.run_once   *)
(* ("once"), and run_once started by the run_campaign_tracker.py wrapper   *)
(* ("wrapper_once").                                                       *)
(***************************************************************************)
EntryCall(e) ==
    CASE e = "tracker" -> <<Frame("run_scheduler", "init"),
                            Frame("initialize", "meta_client")>>
      [] e = "perf" -> <<Frame("run_scheduler", "init"),
                         Frame("initialize_clients", "meta_client")>>
      [] e \in {"once", "wrapper_once"} ->
            <<Frame("run_once", "init"), Frame("initialize", "meta_client")>>

\* campaign_tracker.py main: sys.exit(0 if success else 1)
main_exit(success) == IF success THEN 0 ELSE 1

\* the child process of run_campaign_tracker.py: the script calls
\* tracker.run_once(), drops what it returns and ends
child_exit(success) == 0

\* run_in_venv: subprocess.run(cmd, check=True) raises CalledProcessError on
\* a status other than 0, the except clause prints it, and main returns
run_in_venv_exit(child_status) == 0

\* the process of the 'once' command ends after run_once has returned
ProcessExit ==
    /\ entry \in {"once", "wrapper_once"}
    /\ stack = << >>
    /\ result \in {"True", "False"}
    /\ exit_status = << >>
    /\ exit_status' = IF entry = "once"
                      THEN <<main_exit(result = "True")>>
                      ELSE <<run_in_venv_exit(child_exit(result = "True"))>>
    /\ UNCHANGED <<entry, analysis, monitor, ctl, api, fetchLocals, log, pipeVars,
                   schedVars>>

Init ==
    /\ entry \in {"tracker", "perf", "once", "wrapper_once"}
    /\ stack = EntryCall(entry)
    /\ adset_ids = << >>
    /\ sheets = [n \in SheetNames |-> << >>]
    /\ InitRest

Next ==
    \/ ClientInit
    \/ FindTargetCampaign
    \/ InitializeReturn
    \/ InitializeFailed
    \/ ApiCallOk
    \/ ApiCallFail
    \/ HandleRateLimitError
    \/ BackoffSleep
    \/ ApiCallUnexpected
    \/ GetCampaignsReturn
    \/ GetAdsetsReturn
    \/ ListingFailed
    \/ PerfCollectCampaigns
    \/ CollectAdsets
    \/ InsightsDelay
    \/ InsightsRows
    \/ InsightsReturn
    \/ InsightsFailed
    \/ CollectInsights
    \/ CollectReturn
    \/ CollectFailed
    \/ UploadCampaignDataStep
    \/ UploadCampaignDataReturn
    \/ UploadDataframeStep
    \/ UploadDataframeReturn
    \/ UploadDataframeFailed
    \/ FormatHeaderStep
    \/ FormatHeaderFailed
    \/ UpdateSheetsFormatting
    \/ FormattingStep
    \/ FormattingReturn
    \/ UpdateSheetsReturn
    \/ RunOnceCollect
    \/ RunOnceReturn
    \/ RunOnceFailed
    \/ RunSchedulerInitialized
    \/ RunSchedulerFirstDone
    \/ SetupSchedule
    \/ RunPending
    \/ StartJob
    \/ JobReturn
    \/ TickSleep
    \/ JobBody
    \/ Interrupt
    \/ RunSchedulerInterrupted
    \/ RunSchedulerFailed
    \/ ProcessExit

Spec == Init /\ [][Next]_vars

(***************************************************************************)
(* Properties of the retry wrapper and of the insights fetch.              *)
(***************************************************************************)
InCall(pc) == At("safe_api_call", pc)
FetchDone == entry = "fetch" /\ stack = << >>
Count(seq, r) == Cardinality({i \in DOMAIN seq : seq[i] = r})
AllRows == {[adset_id |-> a, date |-> d] : a \in AdsetIds, d \in 1..(MaxDays + 1)}

\* C1: a rate-limited call is retried after waits of 60, 120 and 240 seconds,
\* at most 3 times (4 attempts); a 4th rate-limited attempt ends the call with
\* the error raised to the caller and no further wait.
C1_BackoffBounded ==
    /\ Len(api.outcomes) <= 4
    /\ Len(api.waits) <= 3
    /\ api.waits = SubSeq(<<60, 120, 240>>, 1, Len(api.waits))
    /\ \A k \in 1..Len(api.waits) : api.outcomes[k] = RateLimitError
    /\ InCall("call") => Len(api.outcomes) = Len(api.waits)
    /\ (Len(api.outcomes) = 4 /\ api.outcomes[4] = RateLimitError)
          => \/ InCall("handle")
             \/ /\ api.status = "raised"
                /\ api.raised = RateLimitError
                /\ api.waits = <<60, 120, 240>>
                /\ \A i \in DOMAIN stack : stack[i].fn # "safe_api_call"

C1_Witness ==
    /\ api.status = "raised"
    /\ api.outcomes = <<RateLimitError, RateLimitError, RateLimitError, RateLimitError>>
    /\ api.waits = <<60, 120, 240>>

\* C2: an attempt that fails with an error other than the rate limit is the
\* last attempt of its call: the error is raised to the caller with no sleep
\* and no retry after it, however many rate-limit retries came before.
C2_OtherErrorsNotRetried ==
    \A i \in 1..Len(api.outcomes) :
        api.outcomes[i] \notin {Ok, RateLimitError}
            => /\ i = Len(api.outcomes)
               /\ Len(api.waits) = i - 1
               /\ \/ InCall("handle")
                  \/ InCall("unexpected")
                  \/ /\ api.status = "raised"
                     /\ api.raised = api.outcomes[i]
                     /\ \A j \in DOMAIN stack : stack[j].fn # "safe_api_call"

C2_Witness ==
    /\ api.status = "raised"
    /\ api.outcomes = <<RateLimitError, RateLimitError, OtherApiError>>
    /\ api.waits = <<60, 120>>

\* the case of C3: one ad set, rate-limited twice, then answered
C3_Case ==
    /\ FetchDone
    /\ Len(adset_ids) = 1
    /\ api.outcomes = <<RateLimitError, RateLimitError, Ok>>

\* C3 as stated: the fetch returns the rows of the successful response and
\* the time slept during the fetch is base*2^0 + base*2^1.
C3_Original ==
    C3_Case => /\ ret = [kind |-> "df", rows |-> Rows(adset_ids[1], fetched[1].n)]
               /\ fetch_slept = 60 + 120

\* C3 amended: the fetch returns the rows of the successful response and the
\* time slept during the fetch is REQUEST_DELAY + base*2^0 + base*2^1.
C3_SleptWithRequestDelay ==
    C3_Case => /\ ret = [kind |-> "df", rows |-> Rows(adset_ids[1], fetched[1].n)]
               /\ fetch_slept = 1 + 60 + 120

C3_Witness == C3_Case /\ fetched[1].n = MaxDays

Scheduling == entry \in {"tracker", "perf"}
InLoop == stack # << >> /\ stack[1].fn = "run_scheduler"
             /\ stack[1].pc \in {"run_pending", "job", "sleep"}
Stopped == stack = << >> /\ result = "returned" /\ escaped = NoExc
JobFns == CollectFns \cup JobBodies
\* a remote metrics call or a backoff sleep is in flight at frame f
InFlight(f) == f.fn = "safe_api_call" /\ f.pc \in {"call", "sleep"}

\* C5: once the check loop is entered and as long as no interrupt arrives,
\* whatever fails inside a triggered action, run_scheduler stays in its loop
\* (checking, running a due action or sleeping a tick): no error reaches its
\* except clause or its caller, and the action's failure is on the log when
\* the action returns.
C5_LoopSurvivesFailures ==
    (Scheduling /\ jobs # << >> /\ interrupts = 0) =>
        /\ InLoop
        /\ escaped = NoExc
        /\ result = "none"
        /\ (At("run_scheduler", "job") /\ ret = Returned) => exc = NoExc

C5_Witness ==
    /\ Scheduling
    /\ interrupts = 0
    /\ failed_runs >= 1
    /\ started # << >>
    /\ Len(stack) >= 2

\* C6 as stated: in every scheduler variant the triggers are registered only
\* after one pipeline run has been made and has ended.
C6_Original == (Scheduling /\ jobs # << >>) => initial_run = "done"

\* C6 amended: CampaignTracker.run_scheduler registers its trigger, and
\* makes its first tick, only after one pipeline run has ended;
\* PerformanceScheduler.run_scheduler makes no pipeline run before it
\* registers its triggers: its first run is the first triggered one.
C6_InitialRunOnlyInTracker ==
    /\ (entry = "tracker" /\ (jobs # << >> \/ ticks > 0)) => initial_run = "done"
    /\ entry = "tracker" /\ initial_run = "running" => jobs = << >> /\ runs = 0
    /\ entry = "perf" => /\ initial_run = "none"
                         /\ runs = 0 => run = NoRun

C6_Witness ==
    /\ entry = "tracker"
    /\ initial_run = "done"
    /\ jobs # << >>
    /\ ticks > 0

\* C7 as stated: after a manual interrupt delivered anywhere inside
\* run_scheduler the scheduler is stopping: run_scheduler is in its
\* except KeyboardInterrupt clause or has returned normally.
C7_Original ==
    (Scheduling /\ interrupts > 0) =>
        \/ At("run_scheduler", "interrupted")
        \/ Stopped

\* C8: at most one triggered action is executing: the check loop is at the
\* job it is running, no second job function is on the call stack, and no
\* action is in progress when the loop checks for due jobs or sleeps; also
\* when the action has lasted longer than its period.
C8_OneActionAtATime ==
    Scheduling =>
        /\ Len(started) <= 1
        /\ Cardinality({i \in DOMAIN stack : stack[i].fn \in JobFns})
              <= (IF stack # << >> /\ stack[1].pc = "first" THEN 1 ELSE Len(started))
        /\ started # << >> => /\ stack # << >>
                              /\ stack[1] = Frame("run_scheduler", "job")
        /\ \A i \in DOMAIN stack :
              (i > 1 /\ stack[i].fn \in JobFns /\ stack[1].pc = "job")
                  => /\ i = 2
                     /\ started # << >>
                     /\ stack[i].fn = jobs[started[1]].fn

\* the hourly action was started when it fell due, one hour after the
\* registration, and is still running when the check registered with it for
\* every 2 hours falls due: it has lasted an hour, its period, or more
C8_Witness ==
    /\ entry = "perf"
    /\ runs = 1
    /\ ticks * TICK = HOUR
    /\ started = <<1>>
    /\ Len(stack) >= 2
    /\ jobs[1].period = HOUR
    /\ jobs[4].fn = "performance_health_check"
    /\ should_run(jobs[4])

C10_EmptyListingShortCircuits ==
    run.listing = "empty" =>
        /\ "warning: no adsets" \in log
        /\ log \cap Errors = {}
        /\ run.requests = 0
        /\ run.sink_calls = 0
        /\ escaped = NoExc
        /\ \A i \in DOMAIN stack : stack[i].fn \notin CollectFns
        /\ (entry = "once" /\ stack = << >>) => result = "True"

C10_Witness ==
    /\ entry = "once"
    /\ stack = << >>
    /\ run.listing = "empty"
    /\ result = "True"

(***************************************************************************)
(* Properties of the campaign resolution and of the exit status.           *)
(***************************************************************************)
\* the ids of the listed campaigns that carry the target name
Targets(l) ==
    {l[i].campaign_id : i \in {k \in DOMAIN l : l[k].campaign_name = TargetName}}

\* C11: _find_target_campaign keeps the id of a listed campaign named exactly
\* as the target, or raises the not-found error when no listed campaign has
\* the name; the error goes from _find_target_campaign through initialize to
\* the caller of initialize, the campaigns are listed once only (by
\* initialize), and a run whose resolution failed lists no ad sets, fetches
\* nothing, publishes nothing and registers no trigger.
C11_ResolutionExactOrNotFound ==
    /\ [](entry \in {"tracker", "once"} =>
            /\ exc = NotFound =>
                  /\ stack # << >>
                  /\ Top.pc = "failed"
                  /\ Top.fn \in {"find_target_campaign", "initialize",
                                 "run_once", "run_scheduler"}
            /\ target_campaign_id = 0 =>
                  /\ run = NoRun
                  /\ jobs = << >>
                  /\ api.func \in {"none", "get_campaigns"}
                  /\ sheets = [n \in SheetNames |-> << >>]
                  /\ \A i \in DOMAIN stack : stack[i].fn \notin CollectFns)
    /\ [][(At("find_target_campaign", "campaigns") /\ ret.kind = "list"
              /\ interrupts' = interrupts)
            => IF Targets(ret.val) # {}
               THEN /\ target_campaign_id' \in Targets(ret.val)
                    /\ stack' = Pop(stack)
                    /\ exc' = exc
               ELSE /\ target_campaign_id' = 0
                    /\ exc' = NotFound
                    /\ stack' = Goto(stack, "failed")]_vars
    /\ [][(stack # << >> /\ Top.pc = "failed" /\ exc = NotFound
              /\ Top.fn \in {"find_target_campaign", "initialize"}
              /\ interrupts' = interrupts)
            => /\ exc' = NotFound
               /\ stack' = Goto(Pop(stack), "failed")]_vars
    /\ [][(entry \in {"tracker", "once"} /\ api'.func = "get_campaigns"
              /\ api.func # "get_campaigns")
            => At("initialize", "sheets_manager")]_vars

\* the not-found error has reached run_once, the caller of initialize, after
\* a listing that held a campaign of another name
C11_Witness ==
    /\ At("run_once", "failed")
    /\ exc = NotFound
    /\ api.status = "returned"
    /\ target_campaign_id = 0

\* C12 as stated: with either entry point of the 'once' command the process
\* exits with status 0 when run_once completed and with status 1 when the
\* initialization or the campaign resolution failed.
C12_Original ==
    exit_status # << >> => exit_status = <<IF result = "True" THEN 0 ELSE 1>>

(***************************************************************************)
(* Properties of the aggregation failures and of the sheet uploads.        *)
(***************************************************************************)
AdsetFailed == "error: adset aggregation failed" \in log
DailyFailed == "error: daily aggregation failed" \in log
\* nothing of the table of this key is handed to the sheet service
NotPublished(key) ==
    /\ ~HasKey(sheets_data, key)
    /\ upload.key # key
    /\ \A i \in DOMAIN results : results[i].key # key

\* C13 as stated: a run in which an aggregation failed makes no call of the
\* sheet service.
C13_Original == (AdsetFailed \/ DailyFailed) => run.sink_calls = 0

\* C13 amended: an aggregation that fails gives an empty table, which is not
\* prepared, not uploaded and whose sheet is not written in that run; the run
\* does not return early: the table of the other aggregation is prepared for
\* upload; when both fail nothing is prepared and no call of the sheet
\* service is made.
C13_FailedTableNotPublished ==
    /\ [](/\ AdsetFailed => adset_data = << >> /\ NotPublished("adset_performance")
          /\ DailyFailed => daily_data = << >> /\ NotPublished("daily_trend")
          /\ (AdsetFailed /\ DailyFailed) =>
                /\ run.sink_calls = 0
                /\ sheets_data = << >>
                /\ "warning: nothing to update" \in log
          /\ \A i \in DOMAIN stack :
                stack[i].fn = "upload_campaign_data" =>
                   /\ AdsetFailed = ~HasKey(sheets_data, "adset_performance")
                   /\ DailyFailed = ~HasKey(sheets_data, "daily_trend")
                   /\ sheets_data # << >>)
    /\ [][/\ (AdsetFailed /\ AdsetFailed') =>
                sheets'["adset sheet"] = sheets["adset sheet"]
          /\ (DailyFailed /\ DailyFailed') =>
                sheets'["daily sheet"] = sheets["daily sheet"]]_vars

\* the by-ad-set aggregation failed and the by-date table was written to its
\* sheet in the same run
C13_Witness ==
    /\ entry = "once"
    /\ AdsetFailed
    /\ ~DailyFailed
    /\ sheets["daily sheet"] # << >>
    /\ sheets["adset sheet"] = << >>
    /\ result = "True"

KeysOf(sd) == [i \in DOMAIN sd |-> sd[i].key]
AnyTrue(rs) == \E i \in DOMAIN rs : rs[i].ok
AttemptStarts ==
    /\ stack # << >>
    /\ Top.fn = "upload_campaign_data"
    /\ stack' = Append(stack, Frame("upload_dataframe_to_sheet", "worksheet"))

\* C14: upload_campaign_data attempts every table present in its input
\* exactly once, whatever the outcome of the other attempt: an attempt is
\* made for a key that is present and has no answer yet, each answer is
\* recorded under the key of its attempt, at the end the map has one boolean
\* per table present, in order, and _update_sheets reports success exactly
\* when one of them is true.
C14_PerSheetIsolation ==
    /\ [](\A i \in DOMAIN stack :
            stack[i].fn = "upload_campaign_data" =>
               /\ stack[i].pc = "done" => KeysOf(results) = KeysOf(sheets_data)
               /\ stack[i].pc = "adset_performance" => results = << >>
               /\ stack[i].pc = "daily_trend" =>
                     KeysOf(results) = IF HasKey(sheets_data, "adset_performance")
                                       THEN <<"adset_performance">> ELSE << >>)
    /\ [][AttemptStarts =>
            /\ HasKey(sheets_data, Top.pc)
            /\ \A i \in DOMAIN results : results[i].key # Top.pc
            /\ upload' = [key |-> Top.pc, sheet |-> SheetOf(Top.pc),
                          table |-> TableOf(sheets_data, Top.pc),
                          include_header |-> TRUE, clear_existing |-> TRUE]]_vars
    /\ [][(results' # results /\ results' # << >>) =>
            /\ ret.kind = "bool"
            /\ results' = Append(results, [key |-> upload.key, ok |-> ret.val])]_vars
    /\ [][(At("update_sheets", "formatting") /\ ret = Returned
              /\ stack' = Pop(stack)) =>
            /\ ("info: sheets updated" \in log') = AnyTrue(results)
            /\ ("warning: sheets update failed" \in log') = ~AnyTrue(results)]_vars

\* the upload of the by-ad-set table failed, the by-date table was uploaded
\* after it and success is reported
C14_Witness ==
    /\ "error: table upload failed" \in log
    /\ "info: sheets updated" \in log
    /\ "info: upload done" \in log
    /\ sheets["daily sheet"] # << >>
    /\ entry = "once"
    /\ run.sink_calls > 0
    /\ result = "True"
    /\ ~AdsetFailed /\ ~DailyFailed

(***************************************************************************)
(* A caller of upload_dataframe_to_sheet that publishes one table to one   *)
(* sheet twice in succession, with arbitrary arguments and an arbitrary    *)
(* spreadsheet.  The caller keeps each answer with the lines the sheet     *)
(* held when the answer came.                                              *)
(***************************************************************************)
\* tables a caller can pass: up to MaxLines data lines
Tables == UNION {[1..n -> 1..MaxLines] : n \in 0..MaxLines}

\* what a sheet can hold before the call: up to MaxLines + 1 lines, each the
\* header line or a data line
Prior == UNION {[1..n -> {Header} \cup 1..MaxLines] : n \in 0..(MaxLines + 1)}

\* what the sheet that is not written holds: a header and its data lines
PriorOther == {<<Header>> \o [i \in 1..MaxLines |-> i]}

UploadCall == Frame("upload_dataframe_to_sheet", "worksheet")

InitUpload ==
    /\ entry = "publish"
    /\ analysis = NoAnalysis
    /\ monitor = NoMonitor
    /\ adset_ids = << >>
    /\ all_insights = << >>
    /\ fetched = << >>
    /\ InitBase
    /\ upload \in [key : {"table"}, sheet : SheetNames, table : Tables,
                   include_header : BOOLEAN, clear_existing : BOOLEAN]
    /\ sheets \in {s \in [SheetNames -> Prior \cup PriorOther] :
                      \A n \in SheetNames :
                          IF n = upload.sheet THEN s[n] \in Prior
                                              ELSE s[n] \in PriorOther}
    /\ stack = <<Frame("publish", "first"), UploadCall>>

\* the answer the caller got, with what the sheet holds now
Answer == [key |-> upload.key, ok |-> ret.val, seen |-> sheets[upload.sheet]]

\* the first call returned: the same call is made again
PublishAgain ==
    /\ At("publish", "first")
    /\ ret.kind = "bool"
    /\ results' = Append(results, Answer)
    /\ stack' = Push(stack, "second", UploadCall)
    /\ ret' = NoRet
    /\ UNCHANGED <<entry, exit_status, analysis, monitor, exc, escaped, api, fetchLocals, log, result,
                   target_campaign_id, tables, sheets_data, upload, sheets, run,
                   schedVars>>

\* the second call returned
PublishDone ==
    /\ At("publish", "second")
    /\ ret.kind = "bool"
    /\ results' = Append(results, Answer)
    /\ stack' = << >>
    /\ ret' = NoRet
    /\ UNCHANGED <<entry, exit_status, analysis, monitor, exc, escaped, api, fetchLocals, log, result,
                   target_campaign_id, tables, sheets_data, upload, sheets, run,
                   schedVars>>

NextUpload ==
    \/ UploadDataframeStep
    \/ UploadDataframeReturn
    \/ UploadDataframeFailed
    \/ FormatHeaderStep
    \/ FormatHeaderFailed
    \/ PublishAgain
    \/ PublishDone

SpecUpload == InitUpload /\ [][NextUpload]_vars

\* C15: upload_dataframe_to_sheet given an empty table returns False and makes
\* no call of the spreadsheet service (no worksheet is opened, created,
\* cleared or written): no sheet changes, whatever include_header and
\* clear_existing are and whatever the sheets hold.
C15_EmptyTableNoOp ==
    /\ []((entry = "publish" /\ upload.table = << >>) =>
            /\ run.sink_calls = 0
            /\ \A i \in DOMAIN results : ~results[i].ok
            /\ ret.kind = "bool" => ~ret.val)
    /\ [][(entry = "publish" /\ upload.table = << >>) =>
               sheets' = sheets /\ run' = run]_vars

\* both calls with an empty table have returned; the sheet held lines, and
\* clear_existing was set
C15_Witness ==
    /\ entry = "publish"
    /\ stack = << >>
    /\ upload.table = << >>
    /\ upload.clear_existing
    /\ ~upload.include_header
    /\ Len(results) = 2
    /\ sheets[upload.sheet] # << >>

\* C16: when a non-empty table is published twice in succession to one sheet
\* with clear_existing set and both calls report success, the sheet holds
\* after the second call exactly what it held after the first: the header
\* line once (if include_header) followed by each data line once, whatever
\* the sheet held before.
C16_PublishTwiceIdempotent ==
    (/\ entry = "publish"
     /\ Len(results) = 2
     /\ upload.clear_existing
     /\ results[1].ok
     /\ results[2].ok)
    => /\ results[2].seen = results[1].seen
       /\ results[1].seen = Values(upload.table, upload.include_header)
       /\ sheets[upload.sheet] = results[2].seen

\* two lines were published twice with their header over some earlier
\* contents, and both calls reported success
C16_Witness ==
    /\ entry = "publish"
    /\ Len(results) = 2
    /\ upload.clear_existing
    /\ upload.include_header
    /\ results[1].ok
    /\ results[2].ok
    /\ Len(upload.table) = MaxLines
    /\ sheets[upload.sheet] = <<Header>> \o upload.table

(***************************************************************************)
(* Properties of what a pipeline run reads from the metrics source.        *)
(***************************************************************************)
InRun(st) == \E i \in DOMAIN st : st[i].fn \in CollectFns
RunStarts == InRun(stack') /\ ~InRun(stack)
\* a pipeline run has returned to its caller, which has not gone on yet
RunReturned ==
    /\ stack # << >>
    /\ ret = Returned
    /\ \/ Top \in {Frame("run_once", "collect"), Frame("run_scheduler", "first")}
       \/ /\ Top = Frame("run_scheduler", "job")
          /\ started # << >>
          /\ jobs[started[Len(started)]].fn \in CollectFns
TrackerEntries == {"tracker", "once", "wrapper_once"}

\* C17 as stated: a pipeline run that has returned has got an answer to a
\* campaign-listing call and to an ad-set-listing call of its own.
C17_Original ==
    RunReturned => run.campaigns # "none" /\ run.listing # "pending"

\* C17 amended: every run reads the ad-set list fresh, and the ids it fetches
\* are the ones that listing returned in that run.  A run of CampaignTracker
\* lists no campaigns: its first request is the ad-set listing, made for the
\* campaign id that initialize stored, which no run changes.  A run of
\* PerformanceScheduler begins with the campaign listing and lists the ad sets
\* only when it has found the campaign.
C17_FreshAdsetsStoredCampaign ==
    /\ [](entry \in TrackerEntries =>
            /\ run.campaigns = "none"
            /\ InRun(stack) => target_campaign_id # 0
            /\ RunReturned => run.listing # "pending")
    /\ [](entry = "perf" =>
            /\ target_campaign_id = 0
            /\ RunReturned =>
                  /\ run.campaigns # "none"
                  /\ (run.listing # "pending") = (run.campaigns = "found"))
    /\ [](entry \in TrackerEntries \cup {"perf"} =>
            (run.listing = "pending" => adset_ids = << >>))
    /\ [][RunStarts =>
            /\ run' = NewRun
            /\ api' = NewCall(IF entry \in TrackerEntries
                              THEN "get_ad_sets" ELSE "get_campaigns")]_vars
    /\ [][target_campaign_id' # target_campaign_id =>
            At("find_target_campaign", "campaigns") /\ ~InRun(stack)]_vars
    /\ [][(adset_ids' # adset_ids /\ adset_ids' # << >>) =>
            /\ Top.fn \in CollectFns
            /\ Top.pc = "adsets"
            /\ ret.kind = "list"
            /\ api.func = "get_ad_sets"
            /\ adset_ids' = ret.val]_vars

\* a triggered run of CampaignTracker, after the initial one, has listed the
\* ad sets of the campaign found at initialization and no campaigns
C17_Witness ==
    /\ entry = "tracker"
    /\ initial_run = "done"
    /\ runs > 0
    /\ RunReturned
    /\ run.campaigns = "none"
    /\ run.listing = "some"
    /\ target_campaign_id # 0

(***************************************************************************)
(* The data processing of a pipeline run on its own: a caller hands a row  *)
(* set to calculate_performance_metrics and, when the set is not empty, to *)
(* _aggregate_adset_data and _aggregate_daily_data, as                     *)
(* collect_and_update_data does.  A row has the columns the claims are     *)
(* about; ctr and cpm are left out.  A date is the number of its day.      *)
(* Money is in whole units; a derived metric is kept in hundredths, the    *)
(* two decimals the code rounds to.                                        *)
(***************************************************************************)
Row(id, name, date, spend, clicks, views, impressions, reach) ==
    [adset_id |-> id, adset_name |-> name, date |-> date, spend |-> spend,
     link_clicks |-> clicks, landing_page_views |-> views,
     impressions |-> impressions, reach |-> reach]

\* two ad sets with three daily rows each, as get_adset_insights orders them
ExampleRows ==
    <<Row(1, "A", 1, 100, 0, 0, 0, 0), Row(2, "B", 1, 50, 0, 0, 0, 0),
      Row(1, "A", 2, 200, 0, 0, 0, 0), Row(2, "B", 2, 60, 0, 0, 0, 0),
      Row(1, "A", 3, 300, 0, 0, 0, 0), Row(2, "B", 3, 70, 0, 0, 0, 0)>>

\* the names an ad set has in the rows of a period: ad set 1 was renamed in
\* it, the others share one name
AdsetNames(id) == IF id = 1 THEN {"A", "A1"} ELSE {"B"}

\* rows with any key and spend
KeyedRows ==
    UNION {{Row(id, name, d, s, 0, 0, 0, 0) :
               name \in AdsetNames(id), d \in 1..MaxDays, s \in 0..MaxSpend} :
           id \in AdsetIds}

\* the place of a name in the order of the names
NameRank(name) == CASE name = "A" -> 1 [] name = "A1" -> 2 [] OTHER -> 3

\* row sets of n such rows, in the order get_adset_insights gives them:
\* sort_values(['date', 'adset_name'])
KeyedRowSets(n) ==
    {rows \in [1..n -> KeyedRows] :
        \A i \in DOMAIN rows :
           i > 1 => \/ rows[i - 1].date < rows[i].date
                    \/ /\ rows[i - 1].date = rows[i].date
                       /\ NameRank(rows[i - 1].adset_name)
                             <= NameRank(rows[i].adset_name)}

\* the empty row set and the single rows with any spend and counts
CountedRowSets ==
    {<< >>} \cup
    {<<Row(1, "A", 1, s, c, v, i, r)>> :
        s \in 0..MaxSpend, c \in 0..MaxCount, v \in 0..MaxCount,
        i \in 0..MaxCount, r \in 0..MaxCount}

\* a rounding that keeps no decimals: the nearest whole, in hundredths
round_whole(n, d) == 100 * ((2 * n + 100 * d) \div (200 * d))

\* Series.round(2) of the quotient n / (100 * d), in hundredths: the nearest
\* hundredth, a tie going to the even one
round(n, d) ==
    LET q == n \div d
        r == n % d
    IN  IF 2 * r < d THEN q
        ELSE IF 2 * r > d THEN q + 1
        ELSE IF q % 2 = 0 THEN q ELSE q + 1

\* calculate_efficiency_score: the weighted score, or the zeros its except
\* clause returns
calculate_efficiency_score(ok) == IF ok THEN "weighted score" ELSE "zeros"

\* calculate_performance_metrics: np.where guards each division, the columns
\* are rounded to two decimals; an empty row set is returned as it is
calculate_performance_metrics(df, score_ok) ==
    [k \in DOMAIN df |->
        LET r == df[k]
        IN  r @@ [cost_per_link_click |->
                     IF r.link_clicks > 0
                     THEN round(100 * r.spend, r.link_clicks) ELSE 0,
                  cost_per_landing_page_view |->
                     IF r.landing_page_views > 0
                     THEN round(100 * r.spend, r.landing_page_views) ELSE 0,
                  reach_rate |->
                     IF r.impressions > 0
                     THEN round(100 * (r.reach * 100), r.impressions) ELSE 0,
                  efficiency_score |-> calculate_efficiency_score(score_ok)]]

\* agg({'spend': 'sum'}) over the rows of one group
RECURSIVE SumSpend(_, _)
SumSpend(rows, I) ==
    IF I = {} THEN 0
    ELSE LET i == CHOOSE j \in I : TRUE
         IN  rows[i].spend + SumSpend(rows, I \ {i})

\* the lines of groupby(['adset_id', 'adset_name']).agg(...)
AdsetGroups(rows) ==
    {[adset_id |-> rows[i].adset_id, adset_name |-> rows[i].adset_name,
      spend |-> SumSpend(rows, {j \in DOMAIN rows :
                                   /\ rows[j].adset_id = rows[i].adset_id
                                   /\ rows[j].adset_name = rows[i].adset_name})] :
        i \in DOMAIN rows}

\* sort_values('spend', ascending=...): the orders of the lines of G the sort
\* can give; it is not stable, lines of equal spend come in any order
sort_values(G, ascending) ==
    {t \in [1..Cardinality(G) -> G] :
        /\ \A i, j \in DOMAIN t : i # j => t[i] # t[j]
        /\ \A i \in DOMAIN t :
              i > 1 => IF ascending THEN t[i - 1].spend <= t[i].spend
                                    ELSE t[i - 1].spend >= t[i].spend}

\* a by-ad-set table sorted by spend ascending
adset_tables_ascending(rows) == sort_values(AdsetGroups(rows), TRUE)

\* _aggregate_adset_data: the tables it can return
adset_tables(rows) == sort_values(AdsetGroups(rows), FALSE)

\* a by-date table that keeps the spend of the first row of each date
daily_table_first(rows) ==
    LET ds == AggregateDaily(rows)
    IN  [k \in DOMAIN ds |->
            [date |-> ds[k],
             spend |-> rows[CHOOSE j \in DOMAIN rows :
                              /\ rows[j].date = ds[k]
                              /\ \A i \in 1..(j - 1) : rows[i].date # ds[k]].spend]]

\* _aggregate_daily_data: one line per date, sorted by date
daily_table(rows) ==
    LET ds == AggregateDaily(rows)
    IN  [k \in DOMAIN ds |->
            [date |-> ds[k],
             spend |-> SumSpend(rows, {j \in DOMAIN rows : rows[j].date = ds[k]})]]

\* the caller holds the rows it was given in fetched, the table in
\* all_insights
InitProcess ==
    /\ entry = "process"
    /\ analysis = NoAnalysis
    /\ monitor = NoMonitor
    /\ adset_ids = << >>
    /\ sheets = [n \in SheetNames |-> << >>]
    /\ upload = NoUpload
    /\ InitBase
    /\ \/ \E n \in 1..MaxRows : fetched \in KeyedRowSets(n)
       \/ fetched \in CountedRowSets
       \/ fetched = ExampleRows
    /\ all_insights = fetched
    /\ stack = <<Frame("process", "metrics")>>

\* insights_df = calculate_performance_metrics(insights_df); the function
\* has no try: nothing in it raises on rows that have their columns
ProcessMetrics ==
    /\ At("process", "metrics")
    /\ \E score_ok \in BOOLEAN :
          /\ all_insights' = calculate_performance_metrics(all_insights, score_ok)
          /\ log' = IF score_ok \/ all_insights = << >> THEN log
                    ELSE log \cup {"warning: efficiency score failed"}
    /\ stack' = IF all_insights = << >> THEN << >>
                ELSE Goto(stack, "aggregate_adset")
    /\ UNCHANGED <<entry, exit_status, analysis, monitor, exc, ret, escaped, api, adset_ids, idx, fetched,
                   fetch_slept, pipeVars, schedVars>>

\* adset_data = _aggregate_adset_data(insights_df)
ProcessAdsets ==
    /\ At("process", "aggregate_adset")
    /\ adset_data' \in adset_tables(all_insights)
    /\ stack' = Goto(stack, "aggregate_daily")
    /\ UNCHANGED <<entry, exit_status, analysis, monitor, exc, ret, escaped, api, fetchLocals, log, result,
                   target_campaign_id, daily_data, sinkVars, run, schedVars>>

\* daily_data = _aggregate_daily_data(insights_df)
ProcessDaily ==
    /\ At("process", "aggregate_daily")
    /\ daily_data' = daily_table(all_insights)
    /\ stack' = << >>
    /\ UNCHANGED <<entry, exit_status, analysis, monitor, exc, ret, escaped, api, fetchLocals, log, result,
                   target_campaign_id, adset_data, sinkVars, run, schedVars>>

NextProcess ==
    \/ ProcessMetrics
    \/ ProcessAdsets
    \/ ProcessDaily

SpecProcess == InitProcess /\ [][NextProcess]_vars

\* the spends of the lines of a table, in order
Spends(table) == [k \in DOMAIN table |-> table[k].spend]
RECURSIVE Total(_)
Total(rows) == IF rows = << >> THEN 0 ELSE Head(rows).spend + Total(Tail(rows))
ProcessDone == entry = "process" /\ stack = << >> /\ fetched # << >>

\* C18: the by-ad-set table of a non-empty row set has one line per distinct
\* (adset_id, adset_name) pair of the rows, the spend of a line is the sum of
\* the spends of the rows of its pair, and the lines are in descending order
\* of spend; the two ad sets of the example come out as 600 then 180.
C18_AdsetAggregation ==
    (entry = "process" /\ fetched # << >>
        /\ (stack = << >> \/ At("process", "aggregate_daily")))
    => /\ Len(adset_data) =
             Cardinality({<<fetched[i].adset_id, fetched[i].adset_name>> :
                             i \in DOMAIN fetched})
       /\ \A i \in DOMAIN fetched : \E k \in DOMAIN adset_data :
             /\ adset_data[k].adset_id = fetched[i].adset_id
             /\ adset_data[k].adset_name = fetched[i].adset_name
       /\ \A k \in DOMAIN adset_data :
             adset_data[k].spend =
                Total(SelectSeq(fetched, LAMBDA r :
                         /\ r.adset_id = adset_data[k].adset_id
                         /\ r.adset_name = adset_data[k].adset_name))
       /\ \A k \in DOMAIN adset_data :
             k > 1 => adset_data[k - 1].spend >= adset_data[k].spend
       /\ fetched = ExampleRows => Spends(adset_data) = <<600, 180>>

\* the example has been aggregated by ad set
C18_Witness ==
    /\ ProcessDone
    /\ fetched = ExampleRows
    /\ Spends(adset_data) = <<600, 180>>
    /\ adset_data[1].adset_id = 1

\* C19: the by-date table of a non-empty row set has one line per distinct
\* date of the rows, the spend of a line is the sum of the spends of all rows
\* of its date, and the lines are in ascending order of date; the example
\* gives 150, 260, 370.
C19_DailyAggregation ==
    ProcessDone
    => /\ Len(daily_data) = Cardinality({fetched[i].date : i \in DOMAIN fetched})
       /\ \A i \in DOMAIN fetched : \E k \in DOMAIN daily_data :
             daily_data[k].date = fetched[i].date
       /\ \A k \in DOMAIN daily_data :
             daily_data[k].spend =
                Total(SelectSeq(fetched, LAMBDA r : r.date = daily_data[k].date))
       /\ \A k \in DOMAIN daily_data :
             k > 1 => daily_data[k - 1].date < daily_data[k].date
       /\ fetched = ExampleRows => Spends(daily_data) = <<150, 260, 370>>

\* the example has been aggregated by date
C19_Witness ==
    /\ ProcessDone
    /\ fetched = ExampleRows
    /\ Spends(daily_data) = <<150, 260, 370>>
    /\ daily_data[1].date = 1

MetricsDone == entry = "process" /\ ~At("process", "metrics")
\* v hundredths is a nearest hundredth of num / den
NearestHundredth(v, num, den) ==
    /\ 2 * (100 * num - v * den) <= den
    /\ 2 * (v * den - 100 * num) <= den
\* the columns of row r of the table that row g was given with
SameColumns(r, g) == \A c \in DOMAIN g : r[c] = g[c]

\* C20 as stated: each derived metric is 0 when its denominator is 0 and is
\* otherwise exactly the quotient.
C20_Original ==
    MetricsDone =>
       \A k \in DOMAIN all_insights :
          LET r == all_insights[k]
          IN  /\ IF r.link_clicks = 0 THEN r.cost_per_link_click = 0
                 ELSE r.cost_per_link_click * r.link_clicks = 100 * r.spend
              /\ IF r.landing_page_views = 0 THEN r.cost_per_landing_page_view = 0
                 ELSE r.cost_per_landing_page_view * r.landing_page_views
                         = 100 * r.spend
              /\ IF r.impressions = 0 THEN r.reach_rate = 0
                 ELSE r.reach_rate * r.impressions = 100 * (r.reach * 100)

\* C20 amended: calculate_performance_metrics returns, for every row set, a
\* table with the rows given and their columns unchanged; in every row
\* cost_per_link_click is 0 when link_clicks is 0, cost_per_landing_page_view
\* is 0 when landing_page_views is 0 and reach_rate is 0 when impressions is
\* 0; otherwise each is the quotient (spend/link_clicks,
\* spend/landing_page_views, reach/impressions*100) rounded to two decimals.
C20_MetricsRounded ==
    /\ (entry = "process" /\ At("process", "metrics")) => ENABLED ProcessMetrics
    /\ entry = "process" => exc = NoExc /\ escaped = NoExc
    /\ MetricsDone =>
          /\ Len(all_insights) = Len(fetched)
          /\ \A k \in DOMAIN all_insights :
                LET r == all_insights[k]
                IN  /\ SameColumns(r, fetched[k])
                    /\ IF r.link_clicks = 0 THEN r.cost_per_link_click = 0
                       ELSE NearestHundredth(r.cost_per_link_click, r.spend,
                                             r.link_clicks)
                    /\ IF r.landing_page_views = 0
                       THEN r.cost_per_landing_page_view = 0
                       ELSE NearestHundredth(r.cost_per_landing_page_view, r.spend,
                                             r.landing_page_views)
                    /\ IF r.impressions = 0 THEN r.reach_rate = 0
                       ELSE NearestHundredth(r.reach_rate, r.reach * 100,
                                             r.impressions)

\* a row with spend 1 and 3 link clicks, no landing page view, and 2 of 3
\* impressions reached: 0.33, 0 and 66.67
C20_Witness ==
    /\ MetricsDone
    /\ Len(all_insights) = 1
    /\ all_insights[1].spend = 1
    /\ all_insights[1].link_clicks = 3
    /\ all_insights[1].cost_per_link_click = 33
    /\ all_insights[1].landing_page_views = 0
    /\ all_insights[1].cost_per_landing_page_view = 0
    /\ all_insights[1].impressions = 3
    /\ all_insights[1].reach = 2
    /\ all_insights[1].reach_rate = 6667

(***************************************************************************)
(* The analysis functions of DataProcessor on their own, as the dashboard  *)
(* calls them on rows of get_adset_insights that went through              *)
(* calculate_performance_metrics: compare_adsets_performance,              *)
(* analyze_daily_trends and calculate_trend_percentage.  A table is kept   *)
(* by its lines in order, a line by the columns a claim is about; the      *)
(* columns a table has are kept apart.                                     *)
(***************************************************************************)
Dict(v) == [kind |-> "dict", val |-> v]

\* the columns calculate_performance_metrics adds
MetricColumns ==
    {"cost_per_link_click", "cost_per_landing_page_view", "reach_rate",
     "efficiency_score"}

\* the columns of adset_summary: the group keys, the aggregated columns and
\* the ones calculate_performance_metrics adds
SummaryColumns ==
    {"adset_id", "adset_name", "spend", "impressions", "reach", "link_clicks",
     "landing_page_views", "ctr", "cpm", "efficiency_score"} \cup MetricColumns

\* the summaries of n ad sets in the order of their keys, each with the
\* efficiency score calculate_performance_metrics gave it
Summaries(n) ==
    {[k \in 1..n |-> [adset_id |-> k, efficiency_score |-> f[k]]] :
        f \in [1..n -> 0..MaxScore]}

\* four ad sets with scores 10, 20, 30, 40
ExampleSummaries ==
    [k \in 1..4 |-> [adset_id |-> k, efficiency_score |-> 10 * k]]

\* eight ad sets with scores 10, 20, ... 80
LadderSummaries ==
    [k \in 1..8 |-> [adset_id |-> k, efficiency_score |-> 10 * k]]

\* sort_values('efficiency_score', ascending=False): the orders the sort can
\* give; it is not stable, lines of equal score come in any order
RECURSIVE rankings(_)
rankings(S) ==
    IF S = {} THEN {<< >>}
    ELSE UNION {{<<m>> \o t : t \in rankings(S \ {m})} :
                m \in {x \in S : \A y \in S :
                                    x.efficiency_score >= y.efficiency_score}}

Range(seq) == {seq[i] : i \in DOMAIN seq}
Max(a, b) == IF a >= b THEN a ELSE b
\* a quartile of ceil(n / 4) lines, at least one
quartile_ceil(n) == Max(1, (n + 3) \div 4)

\* max(1, total_adsets // 4)
quartile(n) == Max(1, n \div 4)

\* DataFrame.head(k) and DataFrame.tail(k)
head(df, k) == SubSeq(df, 1, IF k < Len(df) THEN k ELSE Len(df))
tail(df, k) == SubSeq(df, IF k < Len(df) THEN Len(df) - k + 1 ELSE 1, Len(df))

\* compare_adsets_performance: an empty df gives {}; else the summaries are
\* ranked, top_performers and bottom_performers are cut
CompareStart ==
    /\ At("compare_adsets_performance", "start")
    /\ IF analysis.given = << >>
       THEN ret' = Dict(<< >>) /\ stack' = Pop(stack)
       ELSE ret' = ret /\ stack' = Goto(stack, "rank")
    /\ UNCHANGED <<entry, exit_status, analysis, monitor, exc, escaped, api, fetchLocals, log,
                   pipeVars, schedVars>>

CompareRank ==
    /\ At("compare_adsets_performance", "rank")
    /\ \E adset_summary \in rankings(Range(analysis.given)) :
          LET total_adsets == Len(adset_summary)
          IN  analysis' = [analysis EXCEPT
                 !.given = adset_summary,
                 !.top_performers = head(adset_summary, quartile(total_adsets)),
                 !.bottom_performers = tail(adset_summary, quartile(total_adsets))]
    /\ stack' = Goto(stack, "gap")
    /\ UNCHANGED <<entry, exit_status, monitor, exc, ret, escaped, api, fetchLocals, log, pipeVars,
                   schedVars>>

\* performance_gap is built from columns of the two groups, among them
\* cost_per_result; then the dict is returned
CompareGap ==
    /\ At("compare_adsets_performance", "gap")
    /\ IF "cost_per_result" \in SummaryColumns
       THEN /\ ret' = Dict([adset_rankings |-> analysis.given,
                            top_performers |-> analysis.top_performers,
                            bottom_performers |-> analysis.bottom_performers,
                            performance_gap |-> "gap",
                            total_adsets |-> Len(analysis.given)])
            /\ stack' = Pop(stack)
            /\ UNCHANGED <<exc, escaped>>
       ELSE /\ Raise(KeyError)
            /\ ret' = ret
    /\ UNCHANGED <<entry, exit_status, analysis, monitor, api, fetchLocals, log, pipeVars, schedVars>>

\* except Exception: logger.error; return {}
AnalysisFailed ==
    /\ stack # << >>
    /\ Top.fn \in {"compare_adsets_performance", "analyze_daily_trends"}
    /\ Top.pc = "failed"
    /\ log' = log \cup {"error: analysis failed"}
    /\ ret' = Dict(<< >>)
    /\ exc' = NoExc
    /\ stack' = Pop(stack)
    /\ UNCHANGED <<entry, exit_status, analysis, monitor, escaped, api, fetchLocals, pipeVars,
                   schedVars>>

\* the columns of daily_data: the group key, the aggregated columns and the
\* ones calculate_performance_metrics adds
DailyColumns ==
    {"date", "spend", "impressions", "reach", "link_clicks",
     "landing_page_views", "ctr", "cpm"} \cup MetricColumns

\* rows of one ad set for the dates 1..d, the spend going from 1 to 2 on date
\* r, and with them, when more is set, a row of a second ad set for date 1
DatedRows(d, r, more) ==
    [k \in 1..d |-> [adset_id |-> 1, date |-> k,
                     spend |-> IF k < r THEN 1 ELSE 2]]
        \o (IF more THEN <<[adset_id |-> 2, date |-> 1, spend |-> 1]>> ELSE << >>)

DatedRowSets ==
    {<< >>} \cup
    {DatedRows(d, r, more) : d \in 1..MaxDates, r \in 1..(MaxDates + 1),
                             more \in BOOLEAN}

\* df.groupby('date').agg(...).sort_values('date'): one line per date with
\* the sum of the spends of its rows, by ascending date
RECURSIVE by_date(_, _)
by_date(df, dates) ==
    IF dates = {} THEN << >>
    ELSE LET first == CHOOSE a \in dates : \A b \in dates : a <= b
         IN  <<[date |-> first,
                spend |-> SumSpend(df, {i \in DOMAIN df : df[i].date = first})]>>
                 \o by_date(df, dates \ {first})
daily_lines(df) == by_date(df, {df[i].date : i \in DOMAIN df})

\* daily_data.iloc[-14:-7] of a table of 14 lines or more
iloc_14_7(df) == SubSeq(df, Len(df) - 13, Len(df) - 7)
\* the window just before the recent one whatever the table holds
previous_always_head(df) == head(df, 7)
\* previous_7days
previous_window(df) == IF Len(df) >= 14 THEN iloc_14_7(df) ELSE head(df, 7)

\* a trend that is 0 whenever the old value is 0
trend_zero_base(old_value, new_value) ==
    IF old_value = 0 THEN 0 ELSE round((new_value - old_value) * 10000, old_value)

\* DataProcessor.calculate_trend_percentage, in hundredths of a percent
calculate_trend_percentage(old_value, new_value) ==
    IF old_value = 0
    THEN IF new_value > 0 THEN 10000 ELSE 0
    ELSE round((new_value - old_value) * 10000, old_value)

\* analyze_daily_trends: an empty df gives {}
TrendsStart ==
    /\ At("analyze_daily_trends", "start")
    /\ IF analysis.given = << >>
       THEN ret' = Dict(<< >>) /\ stack' = Pop(stack)
       ELSE ret' = ret /\ stack' = Goto(stack, "windows")
    /\ UNCHANGED <<entry, exit_status, analysis, monitor, exc, escaped, api, fetchLocals, log,
                   pipeVars, schedVars>>

\* the rows are grouped by date and sorted; with 7 lines or more the two
\* windows are cut
TrendsWindows ==
    /\ At("analyze_daily_trends", "windows")
    /\ LET daily == daily_lines(analysis.given)
       IN  IF Len(daily) >= 7
           THEN /\ analysis' = [analysis EXCEPT
                      !.given = daily,
                      !.recent_7days = tail(daily, 7),
                      !.previous_7days = previous_window(daily)]
                /\ stack' = Goto(stack, "trends")
           ELSE /\ analysis' = [analysis EXCEPT !.given = daily]
                /\ stack' = Goto(stack, "weekday")
    /\ UNCHANGED <<entry, exit_status, monitor, exc, ret, escaped, api, fetchLocals, log, pipeVars,
                   schedVars>>

\* what analyze_daily_trends returns when nothing fails
TrendsDict(trend_analysis) ==
    Dict([daily_data |-> analysis.given, trend_analysis |-> trend_analysis,
          total_days |-> Len(analysis.given)])

\* trend_analysis is built from the sums of columns of the two windows, among
\* them results
TrendsCompare ==
    /\ At("analyze_daily_trends", "trends")
    /\ IF "results" \in DailyColumns
       THEN /\ ret' = Dict([spend_trend |->
                      calculate_trend_percentage(Total(analysis.previous_7days),
                                                 Total(analysis.recent_7days))])
            /\ stack' = Goto(stack, "weekday")
            /\ UNCHANGED <<exc, escaped>>
       ELSE /\ Raise(KeyError)
            /\ ret' = ret
    /\ UNCHANGED <<entry, exit_status, analysis, monitor, api, fetchLocals, log, pipeVars, schedVars>>

\* the lines are grouped by weekday and their results column averaged; then
\* the dict is returned
TrendsWeekday ==
    /\ At("analyze_daily_trends", "weekday")
    /\ IF "results" \in DailyColumns
       THEN /\ ret' = TrendsDict(IF ret.kind = "dict" THEN ret.val ELSE << >>)
            /\ stack' = Pop(stack)
            /\ UNCHANGED <<exc, escaped>>
       ELSE /\ Raise(KeyError)
            /\ ret' = ret
    /\ UNCHANGED <<entry, exit_status, analysis, monitor, api, fetchLocals, log, pipeVars, schedVars>>

\* calculate_trend_percentage called with two sums
TrendPercentage ==
    /\ At("calculate_trend_percentage", "call")
    /\ ret' = [kind |-> "float",
               val |-> calculate_trend_percentage(analysis.given[1],
                                                  analysis.given[2])]
    /\ stack' = Pop(stack)
    /\ UNCHANGED <<entry, exit_status, analysis, monitor, exc, escaped, api, fetchLocals, log,
                   pipeVars, schedVars>>

\* the values calculate_trend_percentage is called with: sums of columns that
\* are never negative
TrendValues == ((0..MaxValue) \X (0..MaxValue)) \cup {<<100, 150>>}

InitAnalyze ==
    /\ entry = "analyze"
    /\ monitor = NoMonitor
    /\ upload = NoUpload
    /\ sheets = [n \in SheetNames |-> << >>]
    /\ adset_ids = << >>
    /\ all_insights = << >>
    /\ fetched = << >>
    /\ InitBase
    /\ \E fn \in {"compare_adsets_performance", "analyze_daily_trends",
                  "calculate_trend_percentage"} :
          /\ analysis \in
                {[NoAnalysis EXCEPT !.fn = fn, !.given = g] :
                    g \in CASE fn = "compare_adsets_performance" ->
                                 {ExampleSummaries, LadderSummaries}
                                   \cup UNION {Summaries(n) : n \in 0..MaxSummaries}
                            [] fn = "analyze_daily_trends" -> DatedRowSets
                            [] OTHER -> TrendValues}
          /\ stack = <<Frame(fn, IF fn = "calculate_trend_percentage"
                                 THEN "call" ELSE "start")>>

NextAnalyze ==
    \/ CompareStart
    \/ CompareRank
    \/ CompareGap
    \/ TrendsStart
    \/ TrendsWindows
    \/ TrendsCompare
    \/ TrendsWeekday
    \/ AnalysisFailed
    \/ TrendPercentage

SpecAnalyze == InitAnalyze /\ [][NextAnalyze]_vars

\* compare_adsets_performance has returned from a call with ad-set summaries
CompareDone ==
    /\ entry = "analyze"
    /\ analysis.fn = "compare_adsets_performance"
    /\ stack = << >>
    /\ analysis.given # << >>
Descending(df) ==
    \A i, j \in DOMAIN df : i < j => df[i].efficiency_score >= df[j].efficiency_score

\* C21 as stated: for every non-empty set of n ad-set summaries the quartile
\* comparison returns a performance gap, its top group the first
\* max(1, ceil(n/4)) ad sets in descending order of efficiency score and its
\* bottom group the last max(1, ceil(n/4)).
C21_Original ==
    CompareDone =>
       LET n == Len(analysis.given)
           k == IF (n + 3) \div 4 >= 1 THEN (n + 3) \div 4 ELSE 1
       IN  /\ ret.kind = "dict"
           /\ ret.val # << >>
           /\ Descending(analysis.given)
           /\ ret.val.top_performers = SubSeq(analysis.given, 1, k)
           /\ ret.val.bottom_performers = SubSeq(analysis.given, n - k + 1, n)

\* C21, what the code does: for every non-empty set of n ad-set summaries
\* compare_adsets_performance ranks them in descending order of efficiency
\* score, cuts the first and the last max(1, floor(n/4)) of them as
\* top_performers and bottom_performers, then fails on the missing column
\* cost_per_result, logs the error and returns the empty dict; no exception
\* leaves it.
C21_CompareReturnsEmpty ==
    /\ entry = "analyze" => escaped = NoExc
    /\ CompareDone =>
          LET n == Len(analysis.given)
              q == Len(analysis.top_performers)
          IN  /\ ret = [kind |-> "dict", val |-> << >>]
              /\ "error: analysis failed" \in log
              /\ Descending(analysis.given)
              /\ IF n < 4 THEN q = 1 ELSE 4 * q <= n /\ n < 4 * q + 4
              /\ analysis.top_performers = SubSeq(analysis.given, 1, q)
              /\ analysis.bottom_performers = SubSeq(analysis.given, n - q + 1, n)

\* the call with five ad sets has returned: one ad set in each group, not two
C21_Witness ==
    /\ CompareDone
    /\ Len(analysis.given) = 5
    /\ Len(analysis.top_performers) = 1
    /\ analysis.top_performers[1].efficiency_score = 2
    /\ analysis.bottom_performers[1].efficiency_score = 0
    /\ ret = [kind |-> "dict", val |-> << >>]

\* calculate_trend_percentage has returned
TrendDone ==
    /\ entry = "analyze"
    /\ analysis.fn = "calculate_trend_percentage"
    /\ stack = << >>
    /\ ret.kind = "float"

\* C22 as stated: calculate_trend_percentage(old, new) is exactly
\* (new - old) / old * 100 when old is not 0, 100 when old is 0 and new > 0,
\* and 0 when old is 0 and new is not positive.
C22_Original ==
    TrendDone =>
       LET old_value == analysis.given[1]
           new_value == analysis.given[2]
       IN  IF old_value = 0
           THEN ret.val = (IF new_value > 0 THEN 10000 ELSE 0)
           ELSE ret.val * old_value = (new_value - old_value) * 10000

\* C22 amended: calculate_trend_percentage(old, new) never fails; it returns
\* 100 when old is 0 and new > 0, 0 when old is 0 and new is not positive,
\* and otherwise (new - old) / old * 100 rounded to two decimals: the
\* hundredth nearest to the quotient.  (100,150) gives 50, (0,5) gives 100,
\* (0,0) gives 0.
C22_TrendRounded ==
    /\ (entry = "analyze" /\ analysis.fn = "calculate_trend_percentage") =>
          /\ exc = NoExc /\ escaped = NoExc
          /\ stack = << >> => ret.kind = "float"
    /\ TrendDone =>
          LET old_value == analysis.given[1]
              new_value == analysis.given[2]
              exact == (new_value - old_value) * 10000
          IN  /\ IF old_value = 0
                 THEN ret.val = (IF new_value > 0 THEN 10000 ELSE 0)
                 ELSE /\ 2 * (ret.val * old_value - exact) <= old_value
                      /\ 2 * (exact - ret.val * old_value) <= old_value
              /\ analysis.given = <<100, 150>> => ret.val = 5000
              /\ analysis.given = <<0, 5>> => ret.val = 10000
              /\ analysis.given = <<0, 0>> => ret.val = 0

\* the call with 3 and 4 has returned 33.33
C22_Witness ==
    /\ TrendDone
    /\ analysis.given = <<3, 4>>
    /\ ret.val = 3333

\* analyze_daily_trends has returned from a call with rows
TrendsDone ==
    /\ entry = "analyze"
    /\ analysis.fn = "analyze_daily_trends"
    /\ stack = << >>
    /\ analysis.given # << >>

\* C23 as stated: for rows covering d distinct dates the window comparison
\* returns trend values when d >= 7 and none when d < 7.
C23_Original ==
    TrendsDone =>
       IF Len(analysis.given) >= 7
       THEN /\ ret.kind = "dict"
            /\ ret.val # << >>
            /\ ret.val.trend_analysis # << >>
       ELSE \/ ret.val = << >>
            \/ ret.val.trend_analysis = << >>

\* C23, what the code does: for rows covering d distinct dates
\* analyze_daily_trends builds one line per date in ascending order; with
\* d >= 7 it cuts the most recent 7 lines and, as the window to compare them
\* with, the 7 lines just before them when d >= 14 and the first 7 lines when
\* 7 <= d < 14, with d < 7 it cuts no window; then, whatever d is, it fails on
\* the missing column results, logs the error and returns the empty dict.
C23_TrendsReturnEmpty ==
    TrendsDone =>
       LET d == Len(analysis.given)
       IN  /\ ret = [kind |-> "dict", val |-> << >>]
           /\ "error: analysis failed" \in log
           /\ escaped = NoExc
           /\ \A i \in 1..d : analysis.given[i].date = i
           /\ IF d >= 7
              THEN /\ Len(analysis.recent_7days) = 7
                   /\ Len(analysis.previous_7days) = 7
                   /\ \A i \in 1..7 :
                         /\ analysis.recent_7days[i] = analysis.given[d - 7 + i]
                         /\ analysis.previous_7days[i] =
                               analysis.given[IF d >= 14 THEN d - 14 + i ELSE i]
              ELSE /\ analysis.recent_7days = << >>
                   /\ analysis.previous_7days = << >>

\* the call with rows of 15 dates has returned: the window compared with the
\* recent one began on the second date; the first date had two rows
C23_Witness ==
    /\ TrendsDone
    /\ Len(analysis.given) = 15
    /\ analysis.given[1].spend = 2
    /\ analysis.previous_7days[1].date = 2
    /\ analysis.recent_7days[1].date = 9
    /\ ret = [kind |-> "dict", val |-> << >>]

\* a request, its retries or its backoff sleep is going on
Requesting == \E i \in DOMAIN stack : stack[i].fn = "safe_api_call"
Ended(i) == fetched[i].status \in {"ok", "failed"}

\* C24: get_adset_insights requests the ad sets one after another in the
\* order of the id list, one request (with its retries) per id; a request
\* starts only after REQUEST_DELAY was slept for it and after the request of
\* the previous id, retries included, has ended.
C24_SequentialRequests ==
    /\ [](entry = "fetch" =>
            /\ Len(fetched) <= Len(adset_ids)
            /\ \A i \in DOMAIN fetched :
                  /\ fetched[i].id = adset_ids[i]
                  /\ i < Len(fetched) => Ended(i)
            /\ Requesting => fetched # << >> /\ ~Ended(Len(fetched))
            /\ stack = << >> => Len(fetched) = Len(adset_ids))
    /\ [][(entry = "fetch" /\ Len(fetched') # Len(fetched)) =>
             /\ Len(fetched') = Len(fetched) + 1
             /\ SubSeq(fetched', 1, Len(fetched)) = fetched
             /\ fetch_slept' = fetch_slept + REQUEST_DELAY
             /\ ~Requesting
             /\ \A i \in DOMAIN fetched : Ended(i)
             /\ api'.retry_count = 0]_vars

\* two ad sets were requested; the first request was retried and failed in
\* the end, the second gave rows
C24_Witness ==
    /\ entry = "fetch"
    /\ stack = << >>
    /\ Len(fetched) = 2
    /\ fetched[1].status = "failed"
    /\ fetched[2].status = "ok"
    /\ fetch_slept > 2 * REQUEST_DELAY + BASE_WAIT_TIME

(***************************************************************************)
(* CampaignTracker.run_scheduler followed without end: the check loop with *)
(* its hourly job, the ticks and the runs not counted.  The code goes on   *)
(* as long as it has a step to take, and every remote call ends; a manual  *)
(* interrupt may or may not arrive.                                        *)
(***************************************************************************)
StartJobOn == RunJob(FALSE)
JobReturnOn == JobDone(FALSE)
TickSleepOn == Tick(FALSE)

InitLive ==
    /\ entry = "tracker"
    /\ stack = EntryCall(entry)
    /\ adset_ids = << >>
    /\ sheets = [n \in SheetNames |-> << >>]
    /\ InitRest

ProgramStep ==
    \/ ClientInit
    \/ FindTargetCampaign
    \/ InitializeReturn
    \/ InitializeFailed
    \/ ApiCallOk
    \/ ApiCallFail
    \/ HandleRateLimitError
    \/ BackoffSleep
    \/ ApiCallUnexpected
    \/ GetCampaignsReturn
    \/ GetAdsetsReturn
    \/ ListingFailed
    \/ CollectAdsets
    \/ InsightsDelay
    \/ InsightsRows
    \/ InsightsReturn
    \/ InsightsFailed
    \/ CollectInsights
    \/ CollectReturn
    \/ UploadCampaignDataStep
    \/ UploadCampaignDataReturn
    \/ UploadDataframeStep
    \/ UploadDataframeReturn
    \/ UploadDataframeFailed
    \/ FormatHeaderStep
    \/ FormatHeaderFailed
    \/ UpdateSheetsFormatting
    \/ FormattingStep
    \/ FormattingReturn
    \/ UpdateSheetsReturn
    \/ RunSchedulerInitialized
    \/ RunSchedulerFirstDone
    \/ SetupSchedule
    \/ RunPending
    \/ StartJobOn
    \/ JobReturnOn
    \/ TickSleepOn
    \/ RunSchedulerInterrupted
    \/ RunSchedulerFailed

NextLive == ProgramStep \/ Interrupt

SpecLive == InitLive /\ [][NextLive]_vars /\ WF_vars(ProgramStep)

\* the jobs whose time has come
Due == {i \in DOMAIN jobs : jobs[i].remaining <= 0}
Uninterrupted == interrupts' = interrupts

\* C25: in the check loop of CampaignTracker.run_scheduler, as long as no
\* interrupt arrives: every check collects exactly the jobs that are due, the
\* loop starts them one by one, each after the one before it has returned and
\* within one tick of its time, and sleeps only when all of them have
\* returned; a due job is started, a started job ends, and so the hourly
\* pipeline run is started again and again without end.
C25_DueTriggersExecuted ==
    /\ [][(At("run_scheduler", "run_pending") /\ stack' # stack /\ Uninterrupted)
             => Range(runnable') = Due /\ started = << >>]_vars
    /\ [][(runnable # << >> /\ runnable' # runnable /\ Uninterrupted)
             => /\ runnable' = Tail(runnable)
                /\ started = << >>
                /\ started' = <<Head(runnable)>>
                /\ Head(runnable) \in Due
                /\ jobs[Head(runnable)].remaining > 0 - TICK]_vars
    /\ [](At("run_scheduler", "sleep") => runnable = << >> /\ started = << >>)
    /\ (InLoop /\ Due # {} /\ started = << >>) ~> (started # << >> \/ interrupts > 0)
    /\ (InLoop /\ started # << >>) ~> (started = << >>)
    /\ InLoop ~> (started # << >> \/ interrupts > 0)

\* the hourly run is in flight, started when its time had come, after an
\* earlier run has published the daily table; no interrupt has arrived
C25_Witness ==
    /\ entry = "tracker"
    /\ InLoop
    /\ started = <<1>>
    /\ jobs[1].remaining = 0
    /\ run.requests > 0
    /\ interrupts = 0
    /\ "info: schedule set" \notin log
    /\ sheets["daily sheet"] # << >>

\* a step of upload_dataframe_to_sheet called with include_header=False and
\* clear_existing=False that changes the sheet
AppendingWrite ==
    /\ entry = "publish"
    /\ ~upload.include_header
    /\ ~upload.clear_existing
    /\ sheets'[upload.sheet] # sheets[upload.sheet]

\* C26 as stated: a publish with include_header=false and
\* clear_existing=false appends: every line the sheet held before is still
\* there, unchanged, after it.
C26_Original ==
    [][AppendingWrite =>
          \A i \in DOMAIN sheets[upload.sheet] :
              /\ i \in DOMAIN sheets'[upload.sheet]
              /\ sheets'[upload.sheet][i] = sheets[upload.sheet][i]]_vars

\* C26, what the code does: a publish of n data lines with
\* include_header=false and clear_existing=false writes them over the first n
\* lines of the sheet; only the lines the sheet held below line n are still
\* there, and the sheet gets no longer than the longer of the two.
C26_WritesFromTheTop ==
    [][AppendingWrite =>
          LET old == sheets[upload.sheet]
              new == sheets'[upload.sheet]
              n == Len(upload.table)
          IN  /\ Len(new) = IF Len(old) > n THEN Len(old) ELSE n
              /\ \A i \in 1..n : new[i] = upload.table[i]
              /\ \A i \in (n + 1)..Len(old) : new[i] = old[i]
              /\ \A name \in SheetNames \ {upload.sheet} :
                    sheets'[name] = sheets[name]]_vars

\* one data line was published without header and without clearing to a
\* sheet that held a header and two lines: the line is where the header was
C26_Witness ==
    /\ entry = "publish"
    /\ ~upload.include_header
    /\ ~upload.clear_existing
    /\ upload.table = <<2>>
    /\ Len(results) = 1
    /\ results[1].ok
    /\ results[1].seen = <<2, 1, 2>>

ListingFns == {"get_campaigns", "get_adsets_by_campaign"}
Listing(st) == \E i \in DOMAIN st : st[i].fn \in ListingFns

\* C27 as stated: a pipeline run whose ad-set listing failed behaves exactly
\* like a run for a campaign with no ad sets: warning, no fetch, no publish,
\* no error reported.
C27_Original ==
    run.listing = "failed" =>
        /\ "warning: no adsets" \in log
        /\ log \cap Errors = {}
        /\ run.requests = 0
        /\ run.sink_calls = 0
        /\ escaped = NoExc
        /\ \A i \in DOMAIN stack : stack[i].fn \notin CollectFns

\* C27 amended: get_campaigns and get_adsets_by_campaign raise no error to
\* their caller: when the remote call fails, an exhausted retry budget
\* included, they log the failure as an error and return the empty list; a
\* pipeline run whose ad-set listing failed then goes the way of a run with
\* an empty listing (warning, no insights request, no call of the sheet
\* service, nothing raised, run_once returns True), with the error of the
\* listing on the log.
C27_FailedListingLikeEmpty ==
    /\ [][(Listing(stack) /\ ~Listing(stack') /\ interrupts' = interrupts) =>
             /\ exc' = NoExc
             /\ escaped' = NoExc
             /\ ret'.kind = "list"
             /\ Len(stack') = Len(stack) - 1
             /\ api.status # "returned" =>
                   ret'.val = << >> /\ "error: listing failed" \in log']_vars
    /\ [](run.listing = "failed" =>
            /\ "warning: no adsets" \in log
            /\ "error: listing failed" \in log
            /\ log \cap Errors \subseteq
                  {"error: listing failed", "error: unexpected api error"}
            /\ run.requests = 0
            /\ run.sink_calls = 0
            /\ escaped = NoExc
            /\ \A i \in DOMAIN stack : stack[i].fn \notin CollectFns
            /\ (entry = "once" /\ stack = << >>) => result = "True")

\* run_once returned True after a run whose ad-set listing had used up the
\* retries of a rate-limited request
C27_Witness ==
    /\ entry = "once"
    /\ stack = << >>
    /\ run.listing = "failed"
    /\ api.func = "get_ad_sets"
    /\ api.retry_count = max_retries
    /\ api.raised.code = RATE_LIMIT_CODE
    /\ result = "True"
    /\ "error: listing failed" \in log

Single == entry \in {"once", "wrapper_once"}
\* initialize has returned and collect_and_update_data was called
Collecting == run # NoRun

\* C28: run_once returns True whenever initialize succeeds, whatever happens
\* in the collection step: no error leaves collect_and_update_data, the
\* except clause of run_once is reached from initialize only, and nothing
\* leaves run_once.
C28_RunOnceTrueAfterInit ==
    Single =>
       /\ escaped = NoExc
       /\ At("run_once", "failed") => ~Collecting
       /\ (\E i \in DOMAIN stack : stack[i].fn \in CollectFns) => Collecting
       /\ stack = << >> => (result = "True" <=> Collecting)
       /\ (stack = << >> /\ result = "False") =>
             "error: single run failed" \in log

\* run_once returned True after a run in which an aggregation failed and the
\* publish of the other table failed too
C28_Witness ==
    /\ entry = "once"
    /\ stack = << >>
    /\ result = "True"
    /\ log \cap {"error: adset aggregation failed",
                 "error: daily aggregation failed"} # {}
    /\ "error: table upload failed" \in log
    /\ "warning: sheets update failed" \in log
    /\ run.sink_calls > 0

\* initialize of CampaignTracker has failed: a client could not be created or
\* the target campaign was not found
InitFailed == entry = "tracker" /\ "error: initialization failed" \in log

\* C29: when initialization fails, CampaignTracker.run_scheduler logs the
\* error and returns normally: no pipeline run is made, no trigger is
\* registered, the check loop is never entered, and nothing is raised to the
\* caller.  (A manual interrupt that arrives before run_scheduler has
\* returned ends it through its except KeyboardInterrupt clause instead.)
C29_FailedInitStopsScheduler ==
    /\ [](InitFailed =>
            /\ run = NoRun
            /\ initial_run = "none"
            /\ jobs = << >>
            /\ ticks = 0
            /\ runs = 0
            /\ ~InLoop
            /\ \A i \in DOMAIN stack :
                  /\ stack[i].fn \notin CollectFns
                  /\ stack[i].fn = "run_scheduler" =>
                        stack[i].pc \in {"init", "failed", "interrupted"}
            /\ sheets = [n \in SheetNames |-> << >>]
            /\ escaped = NoExc
            /\ stack = << >> =>
                  /\ result = "returned"
                  /\ interrupts = 0 => "error: scheduler failed" \in log)
    /\ [][(InitFailed /\ interrupts' = interrupts)
             => "error: initialization failed" \in log']_vars

\* run_scheduler has returned after the target campaign was not found
C29_Witness ==
    /\ InitFailed
    /\ stack = << >>
    /\ result = "returned"
    /\ target_campaign_id = 0
    /\ api.func = "get_campaigns"
    /\ api.status = "returned"
    /\ "error: scheduler failed" \in log

(***************************************************************************)
(* PerformanceScheduler: the list of monitored campaigns.  The list is     *)
(* config['campaigns']; load_config reads it from scheduler_config.json    *)
(* when the file exists and else starts from the default config.  The      *)
(* entries are the dicts add_campaign_to_monitor builds, without their     *)
(* added_date; save_config writes the file, which no call reads again.     *)
(***************************************************************************)
MaxCampaigns == 3
MaxLoaded == 2
CampaignIds == 1..MaxCampaigns
\* the campaign_name argument: "None" is the default of the signature
CampaignNames == {"None", "A"}
MonitorFns == {"add_campaign_to_monitor", "remove_campaign_from_monitor"}

\* campaign_info: campaign_name or campaign_id
campaign_info(campaign_id, campaign_name) ==
    [campaign_id |-> campaign_id,
     campaign_name |-> IF campaign_name = "None" THEN ToString(campaign_id)
                       ELSE campaign_name,
     active |-> TRUE]

\* the lists a config file can hold
LoadedLists ==
    UNION {[1..n -> {campaign_info(id, "None") : id \in CampaignIds}] :
              n \in 0..MaxLoaded}

\* self.config.get('campaigns', [])
config_get(cfg) == IF "campaigns" \in cfg.keys THEN cfg.campaigns ELSE << >>

\* a duplicate test that finds no campaign
existing_none(cfg) == << >>

\* existing_campaigns = [c['campaign_id'] for c in config.get('campaigns', [])]
existing_campaigns(cfg) ==
    [i \in DOMAIN config_get(cfg) |-> config_get(cfg)[i].campaign_id]

\* a caller calls add_campaign_to_monitor or remove_campaign_from_monitor
MonitorCall ==
    /\ entry = "monitor"
    /\ stack = << >>
    /\ \E fn \in MonitorFns, id \in CampaignIds, name \in CampaignNames :
          /\ fn = "remove_campaign_from_monitor" => name = "None"
          /\ monitor' = [monitor EXCEPT
                !.call = [fn |-> fn, campaign_id |-> id, campaign_name |-> name]]
          /\ stack' = <<Frame(fn, "start")>>
    /\ log' = {}
    /\ UNCHANGED <<entry, exit_status, analysis, exc, ret, escaped, api, fetchLocals, pipeVars,
                   schedVars>>

\* add_campaign_to_monitor: the entry is appended and the config saved
\* unless the id is among the existing ones
AddCampaign ==
    /\ At("add_campaign_to_monitor", "start")
    /\ LET campaign_id == monitor.call.campaign_id
           info == campaign_info(campaign_id, monitor.call.campaign_name)
       IN  IF campaign_id \notin Range(existing_campaigns(monitor))
           THEN /\ monitor' = [monitor EXCEPT
                      !.keys = @ \cup {"campaigns"},
                      !.campaigns = Append(config_get(monitor), info)]
                /\ stack' = Push(stack, "saved", Frame("save_config", "write"))
                /\ log' = log
           ELSE /\ monitor' = monitor
                /\ stack' = Pop(stack)
                /\ log' = log \cup {"warning: already monitored"}
    /\ UNCHANGED <<entry, exit_status, analysis, exc, ret, escaped, api, fetchLocals, pipeVars,
                   schedVars>>

\* remove_campaign_from_monitor: the entries of another id are kept, the
\* config is saved
RemoveCampaign ==
    /\ At("remove_campaign_from_monitor", "start")
    /\ LET campaigns == config_get(monitor)
       IN  monitor' = [monitor EXCEPT
              !.keys = @ \cup {"campaigns"},
              !.campaigns = SelectSeq(campaigns,
                               LAMBDA c : c.campaign_id # monitor.call.campaign_id)]
    /\ stack' = Push(stack, "saved", Frame("save_config", "write"))
    /\ UNCHANGED <<entry, exit_status, analysis, exc, ret, escaped, api, fetchLocals, log,
                   pipeVars, schedVars>>

\* save_config: the file is written; a failure is logged and not raised
SaveConfig ==
    /\ At("save_config", "write")
    /\ \E written \in BOOLEAN :
          log' = IF written THEN log ELSE log \cup {"error: config save failed"}
    /\ stack' = Pop(stack)
    /\ UNCHANGED <<entry, exit_status, analysis, monitor, exc, ret, escaped, api, fetchLocals,
                   pipeVars, schedVars>>

\* the logger.info after save_config, then the return
MonitorReturn ==
    /\ stack # << >>
    /\ Top.fn \in MonitorFns
    /\ Top.pc = "saved"
    /\ log' = log \cup {IF Top.fn = "add_campaign_to_monitor"
                        THEN "info: campaign added" ELSE "info: campaign removed"}
    /\ stack' = Pop(stack)
    /\ UNCHANGED <<entry, exit_status, analysis, monitor, exc, ret, escaped, api, fetchLocals,
                   pipeVars, schedVars>>

\* the config after load_config: the list of the file, the default config,
\* or {} after a failed load or from a file without the key
InitMonitor ==
    /\ entry = "monitor"
    /\ \E keys \in SUBSET {"campaigns"}, campaigns \in LoadedLists :
          /\ keys = {} => campaigns = << >>
          /\ monitor = [NoMonitor EXCEPT !.keys = keys, !.campaigns = campaigns,
                                         !.loaded = campaigns]
    /\ stack = << >>
    /\ upload = NoUpload
    /\ analysis = NoAnalysis
    /\ sheets = [n \in SheetNames |-> << >>]
    /\ adset_ids = << >>
    /\ all_insights = << >>
    /\ fetched = << >>
    /\ InitBase

NextMonitor ==
    \/ MonitorCall
    \/ AddCampaign
    \/ RemoveCampaign
    \/ SaveConfig
    \/ MonitorReturn

SpecMonitor == InitMonitor /\ [][NextMonitor]_vars

\* the number of entries of a list with the id
EntriesOf(l, id) == Cardinality({i \in DOMAIN l : l[i].campaign_id = id})
OnePerId(l) == \A id \in CampaignIds : EntriesOf(l, id) <= 1
\* the list without the entries of the id, the others in their order
RECURSIVE Without(_, _)
Without(l, id) ==
    IF l = << >> THEN << >>
    ELSE IF Head(l).campaign_id = id THEN Without(Tail(l), id)
         ELSE <<Head(l)>> \o Without(Tail(l), id)
Adding == At("add_campaign_to_monitor", "start") /\ stack' # stack
Removing == At("remove_campaign_from_monitor", "start") /\ stack' # stack
CallEnded == entry = "monitor" /\ monitor.call.fn # "none" /\ stack = << >>

====
